---- MODULE Spec2Model ----
(***************************************************************************)
(* A model of pastime's query construction, request splitting and          *)
(* concurrent download.                                                    *)
(*                                                                         *)
(*   Spec          a SearchQuery's life: construction from keyword         *)
(*                 arguments, update_years, request (statcast/query.py,    *)
(*                 query.py, field.py).                                    *)
(*   SpecDownload  download_files: the submitting thread and the worker    *)
(*                 threads of the pool writing to one shared buffer        *)
(*                 (download.py).                                          *)
(*   SpecField     a Field's get_params applied to bounded inputs          *)
(*                 (field.py, lookup.py).                                  *)
(*   SpecDates     a SearchQuery made through dates(): the defaults of the *)
(*                 two dates, then the life of Spec (statcast/search.py).  *)
(*   SpecLeaderboard  a LeaderboardQuery of the swing-take leaderboard:    *)
(*                 construction and request (statcast/query.py, query.py). *)
(*                                                                         *)
(* Python values are modelled as tagged records (PyNone, PyStr, ...).      *)
(* A str is a TLA+ string, except that a date-formatted string is the      *)
(* tuple <<y, m, d>> ("" is <<>>) and the joined string of a multi-select  *)
(* is its sequence of tokens, the delimiter being a token of its own.      *)
(* A float frequency is an exact fraction <<numerator, denominator>>.      *)
(***************************************************************************)
EXTENDS Integers, Sequences, FiniteSets, TLC

VARIABLES
    \* ---- SearchQuery (Spec)
    pc,                 \* "start" | "built" | "requested" | "error"
    kwargs,             \* the keyword arguments the query was built from
    params,             \* Query.params: slug -> list[str]
    frequency,          \* SearchQuery.frequency
    metric_counter,     \* SearchQuery.metric_counter
    requests_to_make,   \* Query.requests_to_make
    error,              \* the exception that ended the call, or "none"
    updated,            \* number of update_years calls made
    issued,             \* the parameter sets handed to download_files
    today,              \* what date.today() gave in request(), NoDate before
    messages,           \* the advisories handed to download_files
    dates_call,         \* the arguments dates() was called with, if it was
    \* ---- download_files (SpecDownload)
    dl_pc,              \* position of the calling thread
    responses,          \* what the remote service answers to each request
    submitted,          \* number of make_request tasks handed to the pool
    worker,             \* per task: position of make_request, lines written, GETs made
    output,             \* the shared io.StringIO, as a sequence of lines
    raised,             \* the exception download_files raised to its caller
    \* ---- Field (SpecField)
    f_pc,               \* "idle" | "encoded" | "decoded"
    f_field,            \* the name of the field in the collection
    f_in,               \* the value given to get_params
    f_out,              \* the result of get_params: [err, val]
    f_values,           \* the result of get_values on f_out.val: [err, val]
    \* ---- LeaderboardQuery (SpecLeaderboard)
    lb_pc,              \* "start" | "built" | "requested" | "error"
    lb_kwargs,          \* the keyword arguments the query was built from
    lb_params,          \* Query.params
    lb_error,           \* the exception that ended the call, or "none"
    lb_requests,        \* Query.requests_to_make
    lb_issued,          \* the parameter sets handed to download_files
    \* ---- _get_date_pairs, pass by pass (SpecSplit)
    sp_pc,              \* "idle" | "entered" | "for" | "while" | "returned"
    sp_start,           \* start
    sp_end,             \* end
    sp_frequency,       \* self.frequency
    sp_season,          \* season
    sp_range_start,     \* range_start
    date_pairs,         \* date_pairs
    \* ---- _add_param of SearchQuery and of Query (SpecAddParam)
    ap_pc,              \* "idle" | "added"
    ap_field,           \* the name of the field in the collection
    ap_values,          \* the value given to _add_param
    ap_query,           \* the query before the call
    ap_search,          \* the query after SearchQuery._add_param
    ap_base             \* the query after Query._add_param

vars == <<pc, kwargs, params, frequency, metric_counter, requests_to_make,
          error, updated, issued, today, messages, dates_call,
          dl_pc, responses, submitted, worker, output, raised,
          f_pc, f_field, f_in, f_out, f_values,
          lb_pc, lb_kwargs, lb_params, lb_error, lb_requests, lb_issued,
          sp_pc, sp_start, sp_end, sp_frequency, sp_season, sp_range_start,
          date_pairs,
          ap_pc, ap_field, ap_values, ap_query, ap_search, ap_base>>

queryVars == <<pc, kwargs, params, frequency, metric_counter,
               requests_to_make, error, updated, issued, today, messages,
               dates_call>>
downloadVars == <<dl_pc, responses, submitted, worker, output, raised>>
fieldVars == <<f_pc, f_field, f_in, f_out, f_values>>
leaderboardVars == <<lb_pc, lb_kwargs, lb_params, lb_error, lb_requests, lb_issued>>
splitVars == <<sp_pc, sp_start, sp_end, sp_frequency, sp_season, sp_range_start,
               date_pairs>>
addVars == <<ap_pc, ap_field, ap_values, ap_query, ap_search, ap_base>>

-----------------------------------------------------------------------------
(* Bounds of the model *)

\* The calendar years the model draws dates and seasons from are
\* FirstYear..LastYear, a window of the season table.
LastYear == 2021
YearSpan == 3
FirstYear == LastYear - YearSpan + 1
\* Longest list of player ids given to a PlayerField.
MaxPlayers == 3
\* download_files: number of parameter sets and lines per response body.
MaxRequests == 2
MaxLines == 2

-----------------------------------------------------------------------------
(* Python values *)

PyNone == [t |-> "none"]
PyStr(s) == [t |-> "str", v |-> s]
PyDateStr(ymd) == [t |-> "dstr", v |-> ymd]
PyInt(n) == [t |-> "int", v |-> n]
PyFloat(x) == [t |-> "float", v |-> x]
PyDate(d) == [t |-> "date", v |-> d]
PyList(s) == [t |-> "list", v |-> s]

IsSequenceValue(x) == x.t = "list"

\* Python truth value: None, "", an empty sequence and 0 are false.
Truthy(x) ==
    CASE x.t = "none" -> FALSE
      [] x.t = "str" -> x.v # ""
      [] x.t = "dstr" -> x.v # <<>>
      [] x.t = "int" -> x.v # 0
      [] x.t = "float" -> x.v # 0
      [] x.t = "date" -> TRUE
      [] x.t = "list" -> Len(x.v) > 0

Ok(v) == [err |-> "none", val |-> v]
Raise(e) == [err |-> e, val |-> <<>>]

Min(a, b) == IF a <= b THEN a ELSE b
Max(a, b) == IF a >= b THEN a ELSE b

RECURSIVE GCD(_, _)
GCD(a, b) == IF b = 0 THEN a ELSE GCD(b, a % b)

\* Fractions <<n, d>> with d > 0, kept in lowest terms.
Norm(x) == LET g == GCD(x[1], x[2]) IN IF g = 0 THEN <<0, 1>> ELSE <<x[1] \div g, x[2] \div g>>
RMul(x, y) == Norm(<<x[1] * y[1], x[2] * y[2]>>)
RAdd(x, y) == Norm(<<x[1] * y[2] + y[1] * x[2], x[2] * y[2]>>)
RLess(x, y) == x[1] * y[2] < y[1] * x[2]
RLeq(x, y) == x[1] * y[2] <= y[1] * x[2]
ROne == <<1, 1>>

-----------------------------------------------------------------------------
(* datetime.date: proleptic Gregorian ordinals, as date.toordinal() *)

IsLeap(y) == (y % 4 = 0 /\ y % 100 # 0) \/ y % 400 = 0
DaysInMonth(y, m) ==
    CASE m \in {1, 3, 5, 7, 8, 10, 12} -> 31
      [] m \in {4, 6, 9, 11} -> 30
      [] OTHER -> IF IsLeap(y) THEN 29 ELSE 28
DaysBeforeYear(y) ==
    365 * (y - 1) + ((y - 1) \div 4) - ((y - 1) \div 100) + ((y - 1) \div 400)
MonthOffsets == <<0, 31, 59, 90, 120, 151, 181, 212, 243, 273, 304, 334, 365>>
DaysBeforeMonth(y, m) == MonthOffsets[m] + (IF m > 2 /\ IsLeap(y) THEN 1 ELSE 0)

\* date(y, m, d)
Date(y, m, d) == DaysBeforeYear(y) + DaysBeforeMonth(y, m) + d

CalendarYears == 2000 .. 2030
\* date.year: the year y with DaysBeforeYear(y) < n <= DaysBeforeYear(y + 1)
YearOf(n) ==
    LET g == (n * 400) \div 146097 + 1
    IN IF n <= DaysBeforeYear(g) THEN g - 1
       ELSE IF n > DaysBeforeYear(g + 1) THEN g + 1
       ELSE g
\* the month of day r of year y (r = 1 on January 1st)
MonthOfDay(y, r) ==
    LET g == (r - 1) \div 31 + 1
    IN IF r > DaysBeforeMonth(y, g + 1) THEN g + 1 ELSE g

\* str(date) and date.strftime("%Y-%m-%d")
MonthDay(y, m, r) == <<y, m, r - DaysBeforeMonth(y, m)>>
YearDay(y, r) == MonthDay(y, MonthOfDay(y, r), r)
IsoOfYear(y, n) == YearDay(y, n - DaysBeforeYear(y))
IsoFormat(n) == IsoOfYear(YearOf(n), n)
\* datetime.strptime(s, "%Y-%m-%d").date(); raises ValueError on a string
\* that is no date
Strptime(s) ==
    IF /\ Len(s) = 3
       /\ s[1] \in CalendarYears
       /\ s[2] \in 1 .. 12
       /\ s[3] \in 1 .. DaysInMonth(s[1], s[2])
    THEN Ok(Date(s[1], s[2], s[3]))
    ELSE Raise("ValueError")

\* Python's None where a date is expected
NoDate == 0

-----------------------------------------------------------------------------
(* statcast/query.py: constants for request splitting *)

GAMES_PER_DAY == 15
GAMES_PER_REGULAR_SEASON == 2430
GAMES_PER_POSTSEASON == 53
GAMES_PER_YEAR == GAMES_PER_REGULAR_SEASON + GAMES_PER_POSTSEASON
PITCHES_PER_GAME == 325
PITCHES_PER_YEAR == GAMES_PER_YEAR * PITCHES_PER_GAME
MAX_ROWS_PER_REQUEST == 15000
DAYS_PER_REQUEST == MAX_ROWS_PER_REQUEST \div (PITCHES_PER_GAME * GAMES_PER_DAY)

SeasonYears == 2008 .. 2022
SEASON_DATES ==
    [y \in SeasonYears |->
        CASE y = 2008 -> [start |-> Date(2008, 3, 25), end |-> Date(2008, 10, 27)]
          [] y = 2009 -> [start |-> Date(2009, 4, 5), end |-> Date(2009, 11, 4)]
          [] y = 2010 -> [start |-> Date(2010, 4, 4), end |-> Date(2010, 11, 1)]
          [] y = 2011 -> [start |-> Date(2011, 3, 31), end |-> Date(2011, 10, 28)]
          [] y = 2012 -> [start |-> Date(2012, 3, 28), end |-> Date(2012, 10, 28)]
          [] y = 2013 -> [start |-> Date(2013, 3, 31), end |-> Date(2013, 10, 30)]
          [] y = 2014 -> [start |-> Date(2014, 3, 22), end |-> Date(2014, 10, 29)]
          [] y = 2015 -> [start |-> Date(2015, 4, 5), end |-> Date(2015, 11, 1)]
          [] y = 2016 -> [start |-> Date(2016, 4, 3), end |-> Date(2016, 11, 2)]
          [] y = 2017 -> [start |-> Date(2017, 4, 2), end |-> Date(2017, 11, 1)]
          [] y = 2018 -> [start |-> Date(2018, 3, 29), end |-> Date(2018, 10, 28)]
          [] y = 2019 -> [start |-> Date(2019, 3, 20), end |-> Date(2019, 10, 30)]
          [] y = 2020 -> [start |-> Date(2020, 7, 23), end |-> Date(2020, 10, 27)]
          [] y = 2021 -> [start |-> Date(2021, 4, 1), end |-> Date(2021, 11, 2)]
          [] y = 2022 -> [start |-> Date(2022, 4, 7), end |-> Date(2022, 11, 5)]]

-----------------------------------------------------------------------------
(* Strings *)

\* str(int) and int(str) for year numbers
YearStr(y) ==
    CASE y = 2008 -> "2008" [] y = 2009 -> "2009" [] y = 2010 -> "2010"
      [] y = 2011 -> "2011" [] y = 2012 -> "2012" [] y = 2013 -> "2013"
      [] y = 2014 -> "2014" [] y = 2015 -> "2015" [] y = 2016 -> "2016"
      [] y = 2017 -> "2017" [] y = 2018 -> "2018" [] y = 2019 -> "2019"
      [] y = 2020 -> "2020" [] y = 2021 -> "2021" [] y = 2022 -> "2022"
      [] y = 2023 -> "2023" [] y = 2007 -> "2007" [] y = 1999 -> "1999"
NumberedYears == SeasonYears \cup {1999, 2007, 2023}
IsYearStr(s) == \E y \in NumberedYears : YearStr(y) = s
IntOfStr(s) == CHOOSE y \in NumberedYears : YearStr(y) = s

\* str.lower() on the strings of the model
Lower(s) ==
    CASE s = "L" -> "l" [] s = "R" -> "r"
      [] s = "Left" -> "left" [] s = "Right" -> "right"
      [] s = "FF" -> "ff" [] s = "SI" -> "si" [] s = "CU" -> "cu"
      [] s = "Sinker" -> "sinker" [] s = "Fastball" -> "fastball"
      [] s = "All" -> "all" [] s = "Swing-Take" -> "swing-take"
      [] s = "Pitch Type" -> "pitch type" [] s = "Attack Region" -> "attack region"
      [] s = "Bat-side" -> "bat-side" [] s = "Swing" -> "swing"
      [] OTHER -> s

\* The order of Python's string comparison on the strings of the model:
\* digits sort before upper case, upper case before lower case.
StrKey(s) ==
    CASE s = "" -> 0
      [] s = "123456" -> 1
      [] IsYearStr(s) -> 2 + IntOfStr(s)
      [] s = "4.5" -> 4000
      [] s = "4\\.5" -> 4001
      [] s = "543243" -> 5000
      [] s = "660271" -> 5001
      [] s = "CU" -> 5500
      [] s = "FF" -> 5501
      [] s = "L" -> 6000
      [] s = "Left" -> 6001
      [] s = "R" -> 6002
      [] s = "Right" -> 6003
      [] s = "SI" -> 6004
      [] s = "bogus" -> 7000
      [] s = "l" -> 7001
      [] s = "left" -> 7002
      [] s = "r" -> 7003
      [] s = "right" -> 7004
      [] s = "sideways" -> 7005

\* sorted(): the ascending sequence of the strings of a set or a list
RECURSIVE SortedSet(_)
SortedSet(S) ==
    IF S = {} THEN <<>>
    ELSE LET m == CHOOSE x \in S : \A y \in S : StrKey(x) <= StrKey(y)
         IN <<m>> \o SortedSet(S \ {m})
RECURSIVE InsertSorted(_, _)
InsertSorted(x, s) ==
    IF s = <<>> THEN <<x>>
    ELSE IF StrKey(x) < StrKey(s[1]) THEN <<x>> \o s
    ELSE <<s[1]>> \o InsertSorted(x, Tail(s))
RECURSIVE SortedList(_)
SortedList(s) ==
    IF s = <<>> THEN <<>> ELSE InsertSorted(s[Len(s)], SortedList(SubSeq(s, 1, Len(s) - 1)))

\* str.replace(".", "\\.") and str.replace("\\.", "."), on the strings of the
\* model ("4.5" is the one that holds a dot)
Escape(s) == IF s = "4.5" THEN "4\\.5" ELSE s
Unescape(s) == IF s = "4\\.5" THEN "4.5" ELSE s

Range(s) == {s[i] : i \in DOMAIN s}


\* dict.get(k, default) and dict | dict
DictGet(d, k, default) == IF k \in DOMAIN d THEN d[k] ELSE default
Merge(old, new) ==
    [k \in DOMAIN old \cup DOMAIN new |-> IF k \in DOMAIN new THEN new[k] ELSE old[k]]
EmptyDict == <<>>

\* str(value) for the values a field is given
StrOf(x) ==
    CASE x.t = "str" -> x.v
      [] x.t = "int" -> YearStr(x.v)
      [] x.t = "none" -> "None"

-----------------------------------------------------------------------------
(* lookup.py *)

\* The key columns of the lookup table: the identifiers that exist.
KnownIds == {"123456", "543243", "660271"}

\* get_table(...).filter(key == player_id): the matching rows
LookupRows(player_id) == {k \in KnownIds : k = player_id}

\* lookup_id without the check of data.is_empty(): the rows are returned
\* also when there is none
lookup_id_unchecked(player_id) == Ok(LookupRows(player_id))

\* lookup_id: the matching rows, IdNotFoundError when there is none
lookup_id(player_id) ==
    LET data == LookupRows(player_id)
    IN IF data = {} THEN Raise("IdNotFoundError") ELSE Ok(data)

-----------------------------------------------------------------------------
(* field.py: the fields of the "search" collection.  The collection is     *)
(* built from data/statcast_fields.json; the model holds one field of each *)
(* type the search query uses.                                             *)

\* the year field weighs one of its choices, the latest season of the
\* model, by its frequencies; every other season has the default weight 1.0
YearField ==
    [name |-> "year", slug |-> "hfSea", field_type |-> "multi-select",
     choices |-> [s \in {YearStr(y) : y \in SeasonYears} |-> s],
     frequencies |-> (YearStr(LastYear) :> <<1, 2>>), aliases |-> EmptyDict,
     delimiter |-> "|", add_trailing_delimiter |-> TRUE]
StartDateField ==
    [name |-> "start_date", slug |-> "game_date_gt", field_type |-> "date-range",
     min_value |-> <<>>, max_value |-> <<>>]
EndDateField ==
    [name |-> "end_date", slug |-> "game_date_lt", field_type |-> "date-range",
     min_value |-> <<>>, max_value |-> <<>>]
PitchersField ==
    [name |-> "pitchers", slug |-> "pitchers_lookup[]", field_type |-> "player-lookup"]
StandField ==
    [name |-> "stand", slug |-> "batter_stands", field_type |-> "single-select",
     choices |-> ("left" :> "L") @@ ("right" :> "R"),
     frequencies |-> ("L" :> <<1, 2>>) @@ ("R" :> <<1, 2>>)]

\* a multi-select whose choices have names, slugs (one with a dot in it) and
\* an alias for two
PitchTypeField ==
    [name |-> "pitch_type", slug |-> "hfPT", field_type |-> "multi-select",
     choices |-> ("four-seam" :> "FF") @@ ("sinker" :> "SI") @@ ("curveball" :> "CU")
                    @@ ("other" :> "4.5"),
     frequencies |-> EmptyDict,
     aliases |-> ("fastball" :> <<"FF", "SI">>),
     delimiter |-> "|", add_trailing_delimiter |-> TRUE]
\* three metric fields: one that declares its domain, two that declare none
SpeedField ==
    [name |-> "release_speed", slug |-> "api_p_release_speed",
     field_type |-> "metric-range", min_value |-> PyInt(1), max_value |-> PyInt(8)]
AngleField ==
    [name |-> "launch_angle", slug |-> "api_h_launch_angle",
     field_type |-> "metric-range", min_value |-> PyNone, max_value |-> PyNone]
SpinField ==
    [name |-> "spin_rate", slug |-> "api_p_release_spin_rate",
     field_type |-> "metric-range", min_value |-> PyNone, max_value |-> PyNone]

\* Collection.fields
SearchFields ==
    ("year" :> YearField) @@ ("start_date" :> StartDateField)
        @@ ("end_date" :> EndDateField) @@ ("pitchers" :> PitchersField)
        @@ ("stand" :> StandField) @@ ("pitch_type" :> PitchTypeField)
        @@ ("release_speed" :> SpeedField) @@ ("launch_angle" :> AngleField)
        @@ ("spin_rate" :> SpinField)

-----------------------------------------------------------------------------
(* field.py: SingleSelectField *)

SingleSelect_validate_values(field, values) ==
    IF ~Truthy(values) THEN Ok("")
    ELSE IF IsSequenceValue(values) /\ Len(values.v) > 1 THEN Raise("TooManyValuesError")
    ELSE IF IsSequenceValue(values) THEN Ok(StrOf(values.v[1]))
    ELSE Ok(StrOf(values))

SingleSelect_get_param(field, value) ==
    IF value = "" THEN Ok("")
    ELSE IF Lower(value) \in DOMAIN field.choices THEN Ok(field.choices[Lower(value)])
    ELSE IF value \in Range(field.choices) THEN Ok(value)
    ELSE Raise("FieldValueError")

\* get_params: value = _validate_values(values), param = _get_param(value),
\* and the parameter with its dots escaped under the field's slug
SingleSelect_escaped(field, param) ==
    IF param.err # "none" THEN param ELSE Ok(field.slug :> <<Escape(param.val)>>)
SingleSelect_params_of(field, value) ==
    IF value.err # "none" THEN value
    ELSE SingleSelect_escaped(field, SingleSelect_get_param(field, value.val))
SingleSelect_get_params(field, values) ==
    SingleSelect_params_of(field, SingleSelect_validate_values(field, values))

SingleSelect_get_values(field, p) ==
    IF field.slug \in DOMAIN p THEN Ok(Unescape(p[field.slug][1])) ELSE Raise("KeyError")

SingleSelect_get_frequency(field, p) ==
    DictGet(field.frequencies, SingleSelect_get_values(field, p).val,
            DictGet(field.frequencies, "default", ROne))

-----------------------------------------------------------------------------
(* field.py: MultiSelectField *)

MultiSelect_validate_values(field, values) ==
    IF ~Truthy(values) THEN <<"">>
    ELSE IF ~IsSequenceValue(values) THEN <<StrOf(values)>>
    ELSE [i \in DOMAIN values.v |-> StrOf(values.v[i])]

MultiSelect_get_param(field, value) ==
    IF value = "" THEN Ok({})
    ELSE IF Lower(value) \in DOMAIN field.choices
    THEN (IF value \in DOMAIN field.choices
          THEN Ok({field.choices[value]}) ELSE Raise("KeyError"))
    ELSE IF Lower(value) \in DOMAIN field.aliases
    THEN (IF value \in DOMAIN field.aliases
          THEN Ok(Range(field.aliases[value])) ELSE Raise("KeyError"))
    ELSE IF value \in Range(field.choices) THEN Ok({value})
    ELSE Raise("FieldValueError")

\* the loop "for value in valid_values: params |= self._get_param(value)"
RECURSIVE MultiSelect_collect(_, _, _)
MultiSelect_collect(field, valid_values, acc) ==
    IF valid_values = <<>> THEN Ok(acc)
    ELSE LET r == MultiSelect_get_param(field, valid_values[1])
         IN IF r.err # "none" THEN r
            ELSE MultiSelect_collect(field, Tail(valid_values), acc \cup r.val)

\* delimiter.join(param_list) followed by the trailing delimiter
RECURSIVE JoinTokens(_, _)
JoinTokens(param_list, delimiter) ==
    IF param_list = <<>> THEN <<>>
    ELSE IF Len(param_list) = 1 THEN <<param_list[1]>>
    ELSE <<param_list[1], delimiter>> \o JoinTokens(Tail(param_list), delimiter)

\* get_params that leaves the trailing delimiter out: the joined slugs are
\* returned as they are
MultiSelect_joined_untrailed(field, sorted) ==
    Ok(field.slug :>
        <<JoinTokens([i \in DOMAIN sorted |-> Escape(sorted[i])], field.delimiter)>>)

\* get_params: the collected set, sorted, escaped, joined by the delimiter
MultiSelect_joined(field, sorted) ==
    Ok(field.slug :>
        <<JoinTokens([i \in DOMAIN sorted |-> Escape(sorted[i])], field.delimiter)
            \o (IF field.add_trailing_delimiter THEN <<field.delimiter>> ELSE <<>>)>>)
MultiSelect_params_of(field, collected) ==
    IF collected.err # "none" THEN collected
    ELSE MultiSelect_joined(field, SortedSet(collected.val))
MultiSelect_get_params(field, values) ==
    MultiSelect_params_of(
        field, MultiSelect_collect(field, MultiSelect_validate_values(field, values), {}))

\* str.split(delimiter): the pieces between the delimiters; a piece holds at
\* most one token, an empty piece is ""
RECURSIVE SplitPieces(_, _)
SplitPieces(s, delimiter) ==
    IF s = <<>> THEN << <<>> >>
    ELSE LET rest == SplitPieces(Tail(s), delimiter)
         IN IF s[1] = delimiter THEN << <<>> >> \o rest
            ELSE << <<s[1]>> \o rest[1] >> \o Tail(rest)
PieceStr(piece) == IF piece = <<>> THEN "" ELSE piece[1]
SplitTokens(s, delimiter) ==
    LET pieces == SplitPieces(s, delimiter)
    IN [i \in DOMAIN pieces |-> PieceStr(pieces[i])]

\* get_values that keeps the piece after the trailing delimiter: "values"
\* is returned in place of "values[:-1]"
MultiSelect_get_values_untrimmed(field, p) ==
    IF field.slug \notin DOMAIN p THEN Raise("KeyError")
    ELSE LET joined == p[field.slug][1]
             unescaped == [i \in DOMAIN joined |-> Unescape(joined[i])]
         IN Ok(SplitTokens(unescaped, field.delimiter))

MultiSelect_get_values(field, p) ==
    IF field.slug \notin DOMAIN p THEN Raise("KeyError")
    ELSE LET joined == p[field.slug][1]
             unescaped == [i \in DOMAIN joined |-> Unescape(joined[i])]
             values == SplitTokens(unescaped, field.delimiter)
         IN Ok(IF field.add_trailing_delimiter
               THEN SubSeq(values, 1, Len(values) - 1) ELSE values)

RECURSIVE FrequencySum(_, _, _)
FrequencySum(frequencies, default, values) ==
    IF values = <<>> THEN <<0, 1>>
    ELSE RAdd(DictGet(frequencies, values[1], default),
              FrequencySum(frequencies, default, Tail(values)))

\* min(x, 1)
MinOne(x) == IF RLeq(x, ROne) THEN x ELSE ROne

MultiSelect_get_frequency(field, p) ==
    MinOne(FrequencySum(field.frequencies,
                        DictGet(field.frequencies, "default", ROne),
                        MultiSelect_get_values(field, p).val))

-----------------------------------------------------------------------------
(* field.py: PlayerField *)

\* the list comprehension of _validate_values: lookup_id is called on every
\* value in turn, and a value is kept when its rows are not empty
RECURSIVE Player_filter(_)
Player_filter(values) ==
    IF values = <<>> THEN Ok(<<>>)
    ELSE LET found == lookup_id(values[1])
         IN IF found.err # "none" THEN found
            ELSE LET rest == Player_filter(Tail(values))
                 IN IF rest.err # "none" THEN rest
                    ELSE Ok((IF found.val # {} THEN <<values[1]>> ELSE <<>>) \o rest.val)

Player_validate_values(field, values) ==
    Player_filter(
        IF ~Truthy(values) THEN <<"">>
        ELSE IF ~IsSequenceValue(values) THEN <<StrOf(values)>>
        ELSE [i \in DOMAIN values.v |-> StrOf(values.v[i])])

\* get_params: sorted(_validate_values(values)) without the empty strings
Player_params_of(field, valid) ==
    IF valid.err # "none" THEN valid
    ELSE Ok(field.slug :> SelectSeq(SortedList(valid.val), LAMBDA v : v # ""))
Player_get_params(field, values) ==
    Player_params_of(field, Player_validate_values(field, values))

Player_get_values(field, p) ==
    IF field.slug \in DOMAIN p THEN Ok(p[field.slug]) ELSE Raise("KeyError")

Player_get_frequency(field, p) ==
    MinOne(Norm(<<Len(Player_get_values(field, p).val), 100>>))

-----------------------------------------------------------------------------
(* field.py: DateField *)

\* _validate_date: the bounds a field declares (none is <<>>)
Date_validate_date(field, value) ==
    IF field.min_value # <<>> /\ value # NoDate /\ value < Strptime(field.min_value).val
    THEN Raise("LessThanLowerBoundError")
    ELSE IF field.max_value # <<>> /\ value # NoDate
            /\ value > Strptime(field.max_value).val
    THEN Raise("MoreThanUpperBoundError")
    ELSE Ok(value)

Date_validate_values(field, values) ==
    IF IsSequenceValue(values) /\ Len(values.v) > 1 THEN Raise("TooManyValuesError")
    ELSE IF IsSequenceValue(values) /\ Len(values.v) = 0 THEN Raise("IndexError")
    ELSE LET value == IF IsSequenceValue(values) THEN values.v[1] ELSE values
         IN IF ~Truthy(value) THEN Date_validate_date(field, NoDate)
            ELSE IF value.t = "float" THEN Raise("FieldTypeError")
            ELSE IF value.t = "dstr"
            THEN LET parsed == Strptime(value.v)
                 IN IF parsed.err # "none" THEN parsed
                    ELSE Date_validate_date(field, parsed.val)
            ELSE IF value.t \in {"str", "int"} THEN Raise("ValueError")
            ELSE Date_validate_date(field, value.v)

\* get_params: str(_validate_values(values)), "" for no date
Date_params_of(field, value) ==
    IF value.err # "none" THEN value
    ELSE Ok(field.slug :> << IF value.val # NoDate THEN IsoFormat(value.val) ELSE <<>> >>)
Date_get_params(field, values) ==
    Date_params_of(field, Date_validate_values(field, values))

\* the date of the field's parameter, NoDate when it is absent or empty
Date_get_values(field, p) ==
    LET param == DictGet(p, field.slug, << <<>> >>)[1]
    IN IF param # <<>> THEN Strptime(param).val ELSE NoDate

\* Field.get_frequency, which DateField inherits
Field_get_frequency(field, p) ==
    IF field.slug \in DOMAIN p /\ p[field.slug] # <<>>
    THEN DictGet(DictGet(field, "frequencies", EmptyDict), "default", ROne)
    ELSE ROne

-----------------------------------------------------------------------------
(* field.py: MetricField.  A float of the model has an integral value n   *)
(* and is PyFloat(n); str(float) is the pair <<n, ".0">> and the empty    *)
(* bound string is <<>>.                                                  *)

\* float(s) on the strings of the model that parse as a number
NumberStrs == ("0" :> 0) @@ ("3" :> 3) @@ ("5" :> 5) @@ ("10" :> 10)
\* str(x) of a float
FloatStr(x) == <<x, ".0">>
\* value != 0 is false for the numbers 0 and 0.0 only
IsZero(x) == x.t \in {"int", "float"} /\ x.v = 0

\* _validate_metric
Metric_validate_metric(field, value) ==
    IF ~Truthy(value) /\ ~IsZero(value) THEN Ok(PyNone)
    ELSE IF value.t = "date" THEN Raise("FieldTypeError")
    ELSE IF value.t = "int" THEN Ok(PyFloat(value.v))
    ELSE IF value.t = "str"
    THEN (IF value.v \in DOMAIN NumberStrs THEN Ok(PyFloat(NumberStrs[value.v]))
          ELSE Raise("ValueError"))
    ELSE IF value.t = "dstr" THEN Raise("ValueError")
    ELSE Ok(value)

\* the tuple (_validate_metric(values[0]), _validate_metric(values[1])) that
\* _validate_values returns: the first element is validated first, and
\* values[1] of a one-element sequence is an IndexError
Metric_validate_second(first, second) ==
    IF first.err # "none" THEN first
    ELSE IF second.err # "none" THEN second
    ELSE Ok(<<first.val, second.val>>)
Metric_validate_pair(field, values) ==
    Metric_validate_second(
        Metric_validate_metric(field, values[1]),
        IF Len(values) < 2 THEN Raise("IndexError")
        ELSE Metric_validate_metric(field, values[2]))

\* the branch of _validate_values for a str or a value that is no sequence:
\* value = _validate_metric(values), values = [value, value]
Metric_validate_single(field, value) ==
    IF value.err # "none" THEN value
    ELSE Metric_validate_pair(field, <<value.val, value.val>>)

\* _validate_values
Metric_validate_values(field, values) ==
    IF ~Truthy(values) /\ ~IsZero(values)
    THEN Metric_validate_pair(field, <<PyNone, PyNone>>)
    ELSE IF ~IsSequenceValue(values)
    THEN Metric_validate_single(field, Metric_validate_metric(field, values))
    ELSE IF Len(values.v) > 2 THEN Raise("TooManyValuesError")
    ELSE Metric_validate_pair(field, values.v)

\* np.clip(value, range_min, range_max) on a bound that is not None
Clip(field, x) ==
    IF x = PyNone THEN x
    ELSE IF field.min_value # PyNone /\ x.v < field.min_value.v THEN PyFloat(field.min_value.v)
    ELSE IF field.max_value # PyNone /\ x.v > field.max_value.v THEN PyFloat(field.max_value.v)
    ELSE x
\* _get_range_extremes that clips the bounds to the declared domain in place
\* of raising
Metric_get_range_extremes_clipped(field, min_value, max_value) ==
    IF Truthy(Clip(field, min_value)) /\ Truthy(Clip(field, max_value))
        /\ Clip(field, min_value).v > Clip(field, max_value).v
    THEN Raise("InvalidBoundError")
    ELSE Ok(<<Clip(field, min_value), Clip(field, max_value)>>)

\* _get_range_extremes: a bound the field does not declare is PyNone and
\* compares as minus or plus infinity
Metric_get_range_extremes(field, min_value, max_value) ==
    IF Truthy(min_value) /\ field.min_value # PyNone /\ min_value.v < field.min_value.v
    THEN Raise("LessThanLowerBoundError")
    ELSE IF Truthy(max_value) /\ field.max_value # PyNone
            /\ max_value.v > field.max_value.v
    THEN Raise("MoreThanUpperBoundError")
    ELSE IF Truthy(min_value) /\ Truthy(max_value) /\ min_value.v > max_value.v
    THEN Raise("InvalidBoundError")
    ELSE Ok(<<min_value, max_value>>)

\* str(x) if x is not None else ""
Metric_bound_str(x) == IF x # PyNone THEN FloatStr(x.v) ELSE <<>>

\* get_params, from the validated values on
Metric_extremes_of(field, values) ==
    IF values.err # "none" THEN values
    ELSE Metric_get_range_extremes(field, values.val[1], values.val[2])
Metric_params_of(field, extremes) ==
    IF extremes.err # "none" THEN extremes
    ELSE Ok(("metric" :> <<field.slug>>)
            @@ ("metric_gt" :> <<Metric_bound_str(extremes.val[1])>>)
            @@ ("metric_lt" :> <<Metric_bound_str(extremes.val[2])>>))
Metric_get_params(field, values) ==
    Metric_params_of(field, Metric_extremes_of(field, Metric_validate_values(field, values)))

\* f"metric_{counter}", f"metric_{counter}_gt", f"metric_{counter}_lt"
MetricKey(counter) ==
    CASE counter = 1 -> "metric_1" [] counter = 2 -> "metric_2"
      [] counter = 3 -> "metric_3" [] counter = 4 -> "metric_4"
      [] counter = 5 -> "metric_5"
MetricKeyGt(counter) ==
    CASE counter = 1 -> "metric_1_gt" [] counter = 2 -> "metric_2_gt"
      [] counter = 3 -> "metric_3_gt" [] counter = 4 -> "metric_4_gt"
      [] counter = 5 -> "metric_5_gt"
MetricKeyLt(counter) ==
    CASE counter = 1 -> "metric_1_lt" [] counter = 2 -> "metric_2_lt"
      [] counter = 3 -> "metric_3_lt" [] counter = 4 -> "metric_4_lt"
      [] counter = 5 -> "metric_5_lt"

\* get_values: the while loop over metric_1, metric_2, ... up to the first
\* slot that is absent or empty
RECURSIVE Metric_find(_, _, _)
Metric_find(field, p, counter) ==
    IF DictGet(p, MetricKey(counter), <<"">>)[1] = "" THEN Ok(<< <<>>, <<>> >>)
    ELSE IF p[MetricKey(counter)][1] = field.slug
    THEN (IF MetricKeyGt(counter) \in DOMAIN p /\ MetricKeyLt(counter) \in DOMAIN p
          THEN Ok(<<p[MetricKeyGt(counter)][1], p[MetricKeyLt(counter)][1]>>)
          ELSE Raise("KeyError"))
    ELSE Metric_find(field, p, counter + 1)
Metric_get_values(field, p) == Metric_find(field, p, 1)

-----------------------------------------------------------------------------
(* field.py: dispatch on the field's class *)

get_params(field, values) ==
    CASE field.field_type = "single-select" -> SingleSelect_get_params(field, values)
      [] field.field_type = "multi-select" -> MultiSelect_get_params(field, values)
      [] field.field_type = "player-lookup" -> Player_get_params(field, values)
      [] field.field_type = "date-range" -> Date_get_params(field, values)
      [] field.field_type = "metric-range" -> Metric_get_params(field, values)

get_values(field, p) ==
    CASE field.field_type = "single-select" -> SingleSelect_get_values(field, p)
      [] field.field_type = "multi-select" -> MultiSelect_get_values(field, p)
      [] field.field_type = "player-lookup" -> Player_get_values(field, p)
      [] field.field_type = "date-range" -> Ok(Date_get_values(field, p))
      [] field.field_type = "metric-range" -> Metric_get_values(field, p)

get_frequency(field, p) ==
    CASE field.field_type = "single-select" -> SingleSelect_get_frequency(field, p)
      [] field.field_type = "multi-select" -> MultiSelect_get_frequency(field, p)
      [] field.field_type = "player-lookup" -> Player_get_frequency(field, p)
      [] field.field_type = "date-range" -> Field_get_frequency(field, p)
      [] field.field_type = "metric-range" -> Field_get_frequency(field, p)


-----------------------------------------------------------------------------
(* query.py, statcast/query.py: Query and SearchQuery.  A query object is  *)
(* the record [params, frequency, metric_counter, error]; error names the  *)
(* exception that left the method, "none" when it returned.                *)

NewQuery ==
    [params |-> EmptyDict, frequency |-> ROne, metric_counter |-> 1, error |-> "none"]

\* SearchQuery._add_param
\* the keys of a metric field are popped and put back under the slot
\* metric_counter: new_params[f"metric_{self.metric_counter}"] = ...
SearchQuery_slotted(q, field, new_params) ==
    IF field.field_type = "metric-range"
    THEN (MetricKey(q.metric_counter) :> new_params["metric"])
            @@ (MetricKeyGt(q.metric_counter) :> new_params["metric_gt"])
            @@ (MetricKeyLt(q.metric_counter) :> new_params["metric_lt"])
    ELSE new_params
\* _add_param without "self.metric_counter += 1": every metric field is
\* put under the same slot
SearchQuery_uncounted(q, field) == q

\* self.metric_counter += 1, for a metric field
SearchQuery_counted(q, field) ==
    IF field.field_type = "metric-range"
    THEN [q EXCEPT !.metric_counter = q.metric_counter + 1]
    ELSE q
\* self.params |= new_params; self.frequency *= field.get_frequency(self.params)
SearchQuery_merge(q, field, merged) ==
    [q EXCEPT !.params = merged,
              !.frequency = RMul(q.frequency, get_frequency(field, merged))]

\* _add_param with the field's exception caught and dropped: the value that
\* does not validate is skipped and the query goes on
SearchQuery_add_params_caught(q, field, new_params) ==
    IF new_params.err # "none" THEN q
    ELSE SearchQuery_merge(SearchQuery_counted(q, field), field,
                           Merge(q.params, SearchQuery_slotted(q, field, new_params.val)))

SearchQuery_add_params(q, field, new_params) ==
    IF new_params.err # "none" THEN [q EXCEPT !.error = new_params.err]
    ELSE SearchQuery_merge(SearchQuery_counted(q, field), field,
                           Merge(q.params, SearchQuery_slotted(q, field, new_params.val)))
\* _add_param without "if not values: return": an empty value is encoded
\* like any other
SearchQuery_add_param_unskipped(q, field, values) ==
    SearchQuery_add_params(q, field, get_params(field, values))

SearchQuery_add_param(q, field, values) ==
    IF ~Truthy(values) THEN q
    ELSE SearchQuery_add_params(q, field, get_params(field, values))

\* Query.__init__: the loop over the keyword arguments, in their order
RECURSIVE Query_init(_, _, _)
Query_init(q, fields, kw) ==
    IF kw = <<>> \/ q.error # "none" THEN q
    ELSE IF kw[1][1] \notin DOMAIN fields THEN [q EXCEPT !.error = "FieldNameError"]
    ELSE Query_init(SearchQuery_add_param(q, fields[kw[1][1]], kw[1][2]), fields, Tail(kw))

\* SEASON_DATES[int(season)][key]
SeasonDate(season, key) ==
    IF ~IsYearStr(season) THEN Raise("ValueError")
    ELSE IF IntOfStr(season) \notin SeasonYears THEN Raise("KeyError")
    ELSE Ok(SEASON_DATES[IntOfStr(season)][key])

\* x or SEASON_DATES[int(seasons[0])][key]: the index is dropped, the first
\* season is read for both bounds
DateOrFirstSeason(given, seasons, i, key) ==
    IF given # NoDate THEN Ok(given)
    ELSE IF seasons = <<>> THEN Raise("IndexError")
    ELSE IF ~IsYearStr(seasons[1]) THEN Raise("ValueError")
    ELSE IF IntOfStr(seasons[1]) \notin SeasonYears THEN Raise("KeyError")
    ELSE Ok(SEASON_DATES[IntOfStr(seasons[1])][key])

\* x or SEASON_DATES[int(seasons[i])][key]
DateOrSeason(given, seasons, i, key) ==
    IF given # NoDate THEN Ok(given)
    ELSE IF seasons = <<>> THEN Raise("IndexError")
    ELSE SeasonDate(seasons[i], key)

\* SearchQuery._update_dates
\* a statement that follows one that may have raised
Then_add_param(q, field, values) ==
    IF q.error # "none" THEN q ELSE SearchQuery_add_param(q, field, values)

\* _update_dates without "if start > end: raise InvalidBoundError": the two
\* dates are added as they are
SearchQuery_set_dates_unchecked(q, start, end) ==
    IF start.err # "none" THEN [q EXCEPT !.error = start.err]
    ELSE IF end.err # "none" THEN [q EXCEPT !.error = end.err]
    ELSE Then_add_param(SearchQuery_add_param(q, StartDateField, PyDate(start.val)),
                        EndDateField, PyDate(end.val))

\* _update_dates without its last line: the end date is not written back
SearchQuery_set_dates_start_only(q, start, end) ==
    IF start.err # "none" THEN [q EXCEPT !.error = start.err]
    ELSE IF end.err # "none" THEN [q EXCEPT !.error = end.err]
    ELSE IF start.val > end.val THEN [q EXCEPT !.error = "InvalidBoundError"]
    ELSE SearchQuery_add_param(q, StartDateField, PyDate(start.val))

\* SearchQuery._update_dates, from the two dates on: the bound check and
\* the two calls of _add_param
SearchQuery_set_dates(q, start, end) ==
    IF start.err # "none" THEN [q EXCEPT !.error = start.err]
    ELSE IF end.err # "none" THEN [q EXCEPT !.error = end.err]
    ELSE IF start.val > end.val THEN [q EXCEPT !.error = "InvalidBoundError"]
    ELSE Then_add_param(SearchQuery_add_param(q, StartDateField, PyDate(start.val)),
                        EndDateField, PyDate(end.val))

\* SearchQuery._update_dates, from seasons on: start and end
SearchQuery_default_dates(q, seasons) ==
    IF seasons.err # "none" THEN [q EXCEPT !.error = seasons.err]
    ELSE SearchQuery_set_dates(
             q,
             DateOrSeason(Date_get_values(StartDateField, q.params),
                          seasons.val, 1, "start"),
             DateOrSeason(Date_get_values(EndDateField, q.params),
                          seasons.val, Len(seasons.val), "end"))

\* SearchQuery._update_dates
SearchQuery_update_dates(q) ==
    SearchQuery_default_dates(q, MultiSelect_get_values(YearField, q.params))

\* SearchQuery.__init__: Query.__init__, then _update_dates
Then_update_dates(q) == IF q.error # "none" THEN q ELSE SearchQuery_update_dates(q)
SearchQuery_init(kw) == Then_update_dates(Query_init(NewQuery, SearchFields, kw))

\* list(range(lo, hi - 1)): the last year is left out
IntRangeShort(lo, hi) == [i \in 1 .. Max(hi - 1 - lo, 0) |-> PyInt(lo + i - 1)]

\* list(range(lo, hi)) as ints
IntRange(lo, hi) == [i \in 1 .. Max(hi - lo, 0) |-> PyInt(lo + i - 1)]

\* SearchQuery.update_years
\* SearchQuery.update_years, from seasons, start and end on
SearchQuery_set_years(q, seasons, start, end) ==
    IF seasons.err # "none" THEN [q EXCEPT !.error = seasons.err]
    ELSE IF (start = NoDate \/ end = NoDate) /\ seasons.val = <<>>
    THEN [q EXCEPT !.error = "IndexError"]
    ELSE SearchQuery_add_param(
             q, YearField,
             PyList(IntRange(
                 IF start # NoDate THEN YearOf(start) ELSE IntOfStr(seasons.val[1]),
                 IF end # NoDate THEN YearOf(end) + 1
                 ELSE IntOfStr(seasons.val[Len(seasons.val)]))))

SearchQuery_update_years(q) ==
    SearchQuery_set_years(q, MultiSelect_get_values(YearField, q.params),
                          Date_get_values(StartDateField, q.params),
                          Date_get_values(EndDateField, q.params))

\* int(DAYS_PER_REQUEST / self.frequency): the window is a day too long
WindowDaysPlusOne(freq) == (DAYS_PER_REQUEST * freq[2]) \div freq[1]
\* timedelta(weeks=...) in place of timedelta(days=...)
WindowWeeks(freq) == 7 * (((DAYS_PER_REQUEST - 1) * freq[2]) \div freq[1])

\* int((DAYS_PER_REQUEST - 1) / self.frequency)
WindowDays(freq) == ((DAYS_PER_REQUEST - 1) * freq[2]) \div freq[1]

\* the loop body with range_start = range_end + timedelta(days=2): a day is
\* stepped over between two windows
WindowToSkipping(season, range_start, range_end) ==
    [pairs |-> << << IF range_start = SEASON_DATES[season].start
                     THEN <<season, 1, 1>> ELSE IsoFormat(range_start),
                     IsoFormat(range_end) >> >>,
     range_start |-> range_end + 2]

\* the loop body without the rewriting of the season's opening day: every
\* pair carries str(range_start)
WindowToLiteral(season, range_start, range_end) ==
    [pairs |-> << <<IsoFormat(range_start), IsoFormat(range_end)>> >>,
     range_start |-> range_end + 1]

\* the loop body with range_start = range_end: the day after the window is
\* not stepped to
WindowToStaying(season, range_start, range_end) ==
    [pairs |-> << << IF range_start = SEASON_DATES[season].start
                     THEN <<season, 1, 1>> ELSE IsoFormat(range_start),
                     IsoFormat(range_end) >> >>,
     range_start |-> range_end]

\* one pass of the loop body: the pair appended, then range_start = range_end + 1
WindowTo(season, range_start, range_end) ==
    [pairs |-> << << IF range_start = SEASON_DATES[season].start
                     THEN <<season, 1, 1>> ELSE IsoFormat(range_start),
                     IsoFormat(range_end) >> >>,
     range_start |-> range_end + 1]

\* the while loop of _get_date_pairs for one season, up to n passes of it:
\* the pairs appended and the range_start it is left with.  The passes are
\* made half by half, the second half going on where the first one ended.
RECURSIVE WindowLoop(_, _, _, _, _)
Joined(first, rest) ==
    [pairs |-> first.pairs \o rest.pairs, range_start |-> rest.range_start]
Then_loop(first, season, end, freq, n) ==
    Joined(first, WindowLoop(season, first.range_start, end, freq, n))
WindowLoop(season, range_start, end, freq, n) ==
    IF n = 0 \/ ~(range_start <= Min(SEASON_DATES[season].end, end))
    THEN [pairs |-> <<>>, range_start |-> range_start]
    ELSE IF n = 1
    THEN WindowTo(season, range_start, Min(end, range_start + WindowDays(freq)))
    ELSE Then_loop(WindowLoop(season, range_start, end, freq, n \div 2),
                   season, end, freq, n - n \div 2)
\* the while loop run to its end: a pass moves range_start at least a day
\* forward, so that it makes no more passes than there are days left
SeasonWindows(season, range_start, end, freq) ==
    WindowLoop(season, range_start, end, freq,
               Max(Min(SEASON_DATES[season].end, end) - range_start + 1, 0)).pairs

\* the for loop of _get_date_pairs over the seasons first .. last
RECURSIVE SeasonLoop(_, _, _, _, _)
\* the loop with range_start = start: a later season starts again from the
\* query's first day
SeasonLoopFromStart(season, last, start, end, freq) ==
    IF season > last THEN <<>>
    ELSE SeasonWindows(season, start, end, freq)
             \o SeasonLoop(season + 1, last, start, end, freq)

SeasonLoop(season, last, start, end, freq) ==
    IF season > last THEN <<>>
    ELSE SeasonWindows(season, Max(SEASON_DATES[season].start, start), end, freq)
             \o SeasonLoop(season + 1, last, start, end, freq)

\* est_rows > MAX_ROWS_PER_REQUEST: the comparison is turned around
AboveMaxRows(freq) == PITCHES_PER_YEAR * freq[1] > MAX_ROWS_PER_REQUEST * freq[2]

\* est_rows < MAX_ROWS_PER_REQUEST, with est_rows = PITCHES_PER_YEAR * frequency
BelowMaxRows(freq) == PITCHES_PER_YEAR * freq[1] < MAX_ROWS_PER_REQUEST * freq[2]

\* SearchQuery._get_date_pairs
DatePairs(start, end, freq) ==
    IF BelowMaxRows(freq) THEN Ok(<< <<IsoFormat(start), IsoFormat(end)>> >>)
    ELSE IF \E y \in YearOf(start) .. YearOf(end) : y \notin SeasonYears
    THEN Raise("KeyError")
    ELSE Ok(SeasonLoop(YearOf(start), YearOf(end), start, end, freq))
SearchQuery_get_date_pairs(q) ==
    DatePairs(Date_get_values(StartDateField, q.params),
              Date_get_values(EndDateField, q.params), q.frequency)

\* SearchQuery._prepare_requests: the parameter sets appended to
\* requests_to_make, one for each pair
RequestsFor(q, request_date_pairs) ==
    IF request_date_pairs.err # "none" THEN request_date_pairs
    ELSE Ok([i \in DOMAIN request_date_pairs.val |->
               Merge(q.params,
                     ("game_date_gt" :> <<request_date_pairs.val[i][1]>>)
                         @@ ("game_date_lt" :> <<request_date_pairs.val[i][2]>>))])
SearchQuery_prepare_requests(q) == RequestsFor(q, SearchQuery_get_date_pairs(q))

\* SearchQuery._get_messages: the three advisories, by name
Message_if(condition, message) == IF condition THEN <<message>> ELSE <<>>
\* _get_messages with "end > date.today()": a query that ends today gets no
\* advisory
Messages_for_after_today(start, end, now) ==
    Message_if(start # NoDate /\ start < Date(2008, 1, 1), "only from 2008")
        \o Message_if(start # NoDate /\ start < Date(2015, 1, 1), "not before 2015")
        \o Message_if(end # NoDate /\ end > now, "today may be missing")

Messages_for(start, end, now) ==
    Message_if(start # NoDate /\ start < Date(2008, 1, 1), "only from 2008")
        \o Message_if(start # NoDate /\ start < Date(2015, 1, 1), "not before 2015")
        \o Message_if(end # NoDate /\ end >= now, "today may be missing")
SearchQuery_get_messages(q, now) ==
    Messages_for(Date_get_values(StartDateField, q.params),
                 Date_get_values(EndDateField, q.params), now)

-----------------------------------------------------------------------------
(* The calls the model makes *)

ModelYears == FirstYear .. LastYear

\* The dates given as start_date and end_date: each season's opening day, the
\* days 1, 6 and 9 days after it, its closing day, and the ends of the
\* calendar year.
DateCandidates ==
    UNION {{Date(y, 1, 1), SEASON_DATES[y].start, SEASON_DATES[y].start + 1,
            SEASON_DATES[y].start + 6, SEASON_DATES[y].start + 9,
            SEASON_DATES[y].end, Date(y, 12, 31)}
           : y \in ModelYears}

\* str(date), as a caller gives it
DateStrArgs == {PyDateStr(IsoFormat(d)) : d \in DateCandidates}

\* year: one season, or two in either order
YearArgs ==
    {PyList(<<PyStr(YearStr(y))>>) : y \in ModelYears}
        \cup {PyList(<<PyStr(YearStr(yy[1])), PyStr(YearStr(yy[2]))>>) :
                yy \in {zz \in ModelYears \X ModelYears : zz[1] > zz[2]}}
\* query()'s default for year is "2022", the latest season of SEASON_DATES;
\* here it is the latest year of the window the model draws from
DefaultYear == PyList(<<PyStr(YearStr(LastYear))>>)

\* the arguments that narrow the query: player ids and the batter's side
NarrowingArgs ==
    {<< <<"pitchers", p>> >> \o x :
        p \in {PyNone, PyStr("543243"), PyList(<<PyStr("543243"), PyStr("123456")>>)},
        x \in {<<>>, << <<"stand", PyStr("left")>> >>}}

MakeCall(y, s, e, rest) ==
    << <<"year", y>>, <<"start_date", s>>, <<"end_date", e>> >> \o rest

\* season(), game(): seasons are named, at most one date is given
SeasonCalls ==
    {MakeCall(y, se[1], se[2], n) :
        y \in YearArgs,
        se \in ({PyNone} \X ({PyNone} \cup DateStrArgs)) \cup (DateStrArgs \X {PyNone}),
        n \in NarrowingArgs}
\* dates(), pitcher(), batter(): both dates are given, year has its default
DateCalls ==
    {MakeCall(DefaultYear, s, e, n) : s \in DateStrArgs, e \in DateStrArgs, n \in NarrowingArgs}

\* calls with one argument that does not validate
BadValues ==
    [unknown_year |-> PyList(<<PyStr("1999")>>),
     float_date |-> PyFloat(20210401),
     two_dates |-> PyList(<<PyDateStr(<<LastYear, 4, 1>>), PyDateStr(<<LastYear, 4, 10>>)>>),
     a_date |-> PyDateStr(<<LastYear, 4, 1>>)]
FaultyCalls ==
    {MakeCall(BadValues.unknown_year, PyNone, PyNone, <<>>),
     MakeCall(PyNone, PyNone, PyNone, <<>>),
     MakeCall(DefaultYear, BadValues.float_date, PyNone, <<>>),
     MakeCall(DefaultYear, BadValues.a_date, BadValues.float_date, <<>>),
     MakeCall(DefaultYear, BadValues.two_dates, PyNone, <<>>),
     MakeCall(DefaultYear, PyNone, BadValues.two_dates, <<>>),
     MakeCall(DefaultYear, PyNone, PyNone,
              << <<"pitchers", PyList(<<PyStr("123456"), PyStr("bogus")>>)>> >>),
     MakeCall(DefaultYear, PyNone, PyNone, << <<"pitchers", PyStr("bogus")>> >>),
     MakeCall(DefaultYear, PyNone, PyNone, << <<"stand", PyStr("sideways")>> >>),
     MakeCall(DefaultYear, PyNone, PyNone,
              << <<"stand", PyList(<<PyStr("left"), PyStr("right")>>)>> >>),
     MakeCall(DefaultYear, PyNone, PyNone, << <<"pitch_speed", PyStr("left")>> >>),
     MakeCall(DefaultYear, BadValues.a_date, BadValues.a_date,
              << <<"pitch_speed", PyStr("left")>> >>)}

\* dates on both sides of each of the two thresholds of _get_messages
HistoricDates ==
    {{PyDateStr(<<2007, 12, 31>>), PyDateStr(<<2008, 1, 1>>)},
     {PyDateStr(<<2014, 12, 31>>), PyDateStr(<<2015, 1, 1>>)}}
HistoricCalls ==
    {MakeCall(DefaultYear, se[1], se[2], n) :
        se \in UNION {around \X around : around \in HistoricDates},
        n \in NarrowingArgs}

\* calls that give metric fields among the other fields: a range, one
\* number, 0 and None (which _add_param skips), a range with a bound of 0
\* and a reversed range (which get_params rejects)
MetricValues ==
    {PyNone, PyInt(0), PyInt(5), PyList(<<PyInt(3), PyInt(5)>>),
     PyList(<<PyInt(0), PyInt(5)>>), PyList(<<PyInt(5), PyInt(3)>>)}
MetricKwargs ==
    {<< <<"release_speed", a>>, <<"pitchers", PyStr("543243")>>,
        <<"launch_angle", b>>, <<"stand", PyStr("left")>>, <<"spin_rate", c>> >> :
        a \in MetricValues, b \in MetricValues, c \in MetricValues}
    \cup
    {<< <<"spin_rate", a>>, <<"release_speed", b>> >> :
        a \in MetricValues, b \in MetricValues}
MetricCalls == {MakeCall(DefaultYear, PyNone, PyNone, rest) : rest \in MetricKwargs}

Calls ==
    SeasonCalls \cup DateCalls \cup FaultyCalls \cup HistoricCalls \cup MetricCalls

-----------------------------------------------------------------------------
(* Spec: the life of a SearchQuery *)

QueryIdle ==
    /\ pc = "start"
    /\ kwargs = <<>>
    /\ params = EmptyDict
    /\ frequency = ROne
    /\ metric_counter = 1
    /\ requests_to_make = <<>>
    /\ error = "none"
    /\ updated = 0
    /\ issued = <<>>
    /\ today = NoDate
    /\ messages = <<>>
    /\ dates_call = <<>>

DownloadIdle ==
    /\ dl_pc = "idle"
    /\ responses = <<>>
    /\ submitted = 0
    /\ worker = <<>>
    /\ output = <<>>
    /\ raised = "none"

FieldIdle ==
    /\ f_pc = "idle"
    /\ f_field = ""
    /\ f_in = PyNone
    /\ f_out = Ok(EmptyDict)
    /\ f_values = Ok(<<>>)

LeaderboardIdle ==
    /\ lb_pc = "start"
    /\ lb_kwargs = <<>>
    /\ lb_params = EmptyDict
    /\ lb_error = "none"
    /\ lb_requests = <<>>
    /\ lb_issued = <<>>

SplitIdle ==
    /\ sp_pc = "idle"
    /\ sp_start = NoDate
    /\ sp_end = NoDate
    /\ sp_frequency = ROne
    /\ sp_season = 0
    /\ sp_range_start = NoDate
    /\ date_pairs = <<>>

AddIdle ==
    /\ ap_pc = "idle"
    /\ ap_field = ""
    /\ ap_values = PyNone
    /\ ap_query = NewQuery
    /\ ap_search = NewQuery
    /\ ap_base = NewQuery

Init ==
    QueryIdle /\ DownloadIdle /\ FieldIdle /\ LeaderboardIdle /\ SplitIdle /\ AddIdle

ThisQuery ==
    [params |-> params, frequency |-> frequency,
     metric_counter |-> metric_counter, error |-> error]

Store(q) ==
    /\ params' = q.params
    /\ frequency' = q.frequency
    /\ metric_counter' = q.metric_counter
    /\ error' = q.error

\* search_query = SearchQuery(url, collection, **kwargs)
Construct ==
    /\ pc = "start"
    /\ \E kw \in Calls :
        \E q \in {SearchQuery_init(kw)} :
           /\ kwargs' = kw
           /\ Store(q)
           /\ pc' = IF q.error = "none" THEN "built" ELSE "error"
    /\ UNCHANGED <<requests_to_make, updated, issued, today, messages, dates_call>>
    /\ UNCHANGED <<downloadVars, fieldVars, leaderboardVars, splitVars, addVars>>

MaxUpdateCalls == 1

\* search_query.update_years()
UpdateYears ==
    /\ pc = "built"
    /\ updated < MaxUpdateCalls
    /\ \E q \in {SearchQuery_update_years(ThisQuery)} :
          /\ Store(q)
          /\ pc' = IF q.error = "none" THEN "built" ELSE "error"
    /\ updated' = updated + 1
    /\ UNCHANGED <<kwargs, requests_to_make, issued, today, messages, dates_call>>
    /\ UNCHANGED <<downloadVars, fieldVars, leaderboardVars, splitVars, addVars>>

\* the dates date.today() may give: a day of the latest season of the
\* window that is also given as a date, and a day after all of them
Todays == {SEASON_DATES[LastYear].start + 6, Date(LastYear + 1, 1, 1)}

\* search_query.request(): _prepare_requests, then download_files is given
\* requests_to_make and the messages of _get_messages, and makes one GET
\* for each of the parameter sets
Request ==
    /\ pc = "built"
    /\ \E prepared \in {SearchQuery_prepare_requests(ThisQuery)} :
          IF prepared.err # "none"
          THEN /\ error' = prepared.err
               /\ pc' = "error"
               /\ UNCHANGED <<requests_to_make, issued, today, messages>>
          ELSE /\ requests_to_make' = requests_to_make \o prepared.val
               /\ issued' = requests_to_make'
               /\ today' \in Todays
               /\ messages' = SearchQuery_get_messages(ThisQuery, today')
               /\ pc' = "requested"
               /\ error' = error
    /\ UNCHANGED <<kwargs, params, frequency, metric_counter, updated, dates_call>>
    /\ UNCHANGED <<downloadVars, fieldVars, leaderboardVars, splitVars, addVars>>

Next == Construct \/ UpdateYears \/ Request

Spec == Init /\ [][Next]_vars

-----------------------------------------------------------------------------
(* SpecDates: dates(start_date, end_date) of statcast/search.py, which     *)
(* fills in the dates that are not given and calls query(); query() makes  *)
(* the SearchQuery, may call update_years, and calls request.              *)

\* x or y
PyOr(x, y) == IF Truthy(x) THEN x ELSE y

\* dates(): the start_date and end_date it hands to query(), now being
\* what date.today() gives
Dates_arguments(start_date, end_date, now) ==
    IF ~Truthy(start_date) /\ Truthy(end_date)
    THEN [start_date |-> PyDate(now), end_date |-> PyDate(now)]
    ELSE [start_date |-> PyOr(start_date, end_date),
          end_date |-> PyOr(end_date, start_date)]

\* the dates given to dates(): none, "", days of the latest season of the
\* window as strings, and one as a date
DatesArgs ==
    {PyNone, PyStr(""), PyDate(SEASON_DATES[LastYear].start + 1)}
        \cup {PyDateStr(IsoFormat(d)) :
                d \in {SEASON_DATES[LastYear].start, SEASON_DATES[LastYear].start + 6,
                       SEASON_DATES[LastYear].start + 9, SEASON_DATES[LastYear].end}}

\* dates(start_date, end_date, **kwargs), up to the construction of the
\* SearchQuery in query()
Dates ==
    /\ pc = "start"
    /\ \E start_date \in DatesArgs, end_date \in DatesArgs, now \in Todays,
          n \in NarrowingArgs :
        \E passed \in {Dates_arguments(start_date, end_date, now)} :
          \E kw \in {MakeCall(DefaultYear, passed.start_date, passed.end_date, n)} :
            \E q \in {SearchQuery_init(kw)} :
               /\ dates_call' = [start_date |-> start_date, end_date |-> end_date,
                                 today |-> now]
               /\ kwargs' = kw
               /\ Store(q)
               /\ pc' = IF q.error = "none" THEN "built" ELSE "error"
    /\ UNCHANGED <<requests_to_make, updated, issued, today, messages>>
    /\ UNCHANGED <<downloadVars, fieldVars, leaderboardVars, splitVars, addVars>>

NextDates == Dates \/ UpdateYears \/ Request

SpecDates == Init /\ [][NextDates]_vars

-----------------------------------------------------------------------------
(* SpecSplit: SearchQuery._get_date_pairs, one pass of its loops at a step. *)
(* The method runs on the thread that called request() and nothing makes   *)
(* it wait, so a step that can be taken is taken.                          *)

\* the frequencies a query of the model comes to: no narrowing field, one
\* side of the plate, two pitchers, one pitcher
SplitFrequencies == {ROne, <<1, 2>>, <<1, 50>>, <<1, 100>>}

\* _get_date_pairs is entered with the dates and the frequency of the query
SplitEnter ==
    /\ sp_pc = "idle"
    /\ \E start \in DateCandidates, end \in DateCandidates, freq \in SplitFrequencies :
          /\ start <= end
          /\ sp_start' = start
          /\ sp_end' = end
          /\ sp_frequency' = freq
    /\ sp_pc' = "entered"
    /\ UNCHANGED <<sp_season, sp_range_start, date_pairs>>
    /\ UNCHANGED <<queryVars, downloadVars, fieldVars, leaderboardVars, addVars>>

\* if est_rows < MAX_ROWS_PER_REQUEST: return [(str(start), str(end))]
SplitLiteral ==
    /\ sp_pc = "entered"
    /\ BelowMaxRows(sp_frequency)
    /\ date_pairs' = << <<IsoFormat(sp_start), IsoFormat(sp_end)>> >>
    /\ sp_pc' = "returned"
    /\ UNCHANGED <<sp_start, sp_end, sp_frequency, sp_season, sp_range_start>>
    /\ UNCHANGED <<queryVars, downloadVars, fieldVars, leaderboardVars, addVars>>

\* for season in range(start.year, end.year + 1): the first season
SplitFirstSeason ==
    /\ sp_pc = "entered"
    /\ ~BelowMaxRows(sp_frequency)
    /\ sp_season' = YearOf(sp_start)
    /\ sp_pc' = "for"
    /\ UNCHANGED <<sp_start, sp_end, sp_frequency, sp_range_start, date_pairs>>
    /\ UNCHANGED <<queryVars, downloadVars, fieldVars, leaderboardVars, addVars>>

\* the head of the for loop with a season left:
\* range_start = max(season_start, start)
SeasonEnter ==
    /\ sp_pc = "for"
    /\ sp_season <= YearOf(sp_end)
    /\ sp_range_start' = Max(SEASON_DATES[sp_season].start, sp_start)
    /\ sp_pc' = "while"
    /\ UNCHANGED <<sp_start, sp_end, sp_frequency, sp_season, date_pairs>>
    /\ UNCHANGED <<queryVars, downloadVars, fieldVars, leaderboardVars, addVars>>

\* the head of the for loop with no season left: return date_pairs
SeasonsDone ==
    /\ sp_pc = "for"
    /\ sp_season > YearOf(sp_end)
    /\ sp_pc' = "returned"
    /\ UNCHANGED <<sp_start, sp_end, sp_frequency, sp_season, sp_range_start, date_pairs>>
    /\ UNCHANGED <<queryVars, downloadVars, fieldVars, leaderboardVars, addVars>>

\* one pass of the while loop: range_end, the pair appended, range_start
WindowPass ==
    /\ sp_pc = "while"
    /\ sp_range_start <= Min(SEASON_DATES[sp_season].end, sp_end)
    /\ \E pass \in {WindowTo(sp_season, sp_range_start,
                              Min(sp_end, sp_range_start + WindowDays(sp_frequency)))} :
          /\ date_pairs' = date_pairs \o pass.pairs
          /\ sp_range_start' = pass.range_start
    /\ UNCHANGED <<sp_pc, sp_start, sp_end, sp_frequency, sp_season>>
    /\ UNCHANGED <<queryVars, downloadVars, fieldVars, leaderboardVars, addVars>>

\* the while loop is left: on to the next season
WindowsDone ==
    /\ sp_pc = "while"
    /\ ~(sp_range_start <= Min(SEASON_DATES[sp_season].end, sp_end))
    /\ sp_season' = sp_season + 1
    /\ sp_pc' = "for"
    /\ UNCHANGED <<sp_start, sp_end, sp_frequency, sp_range_start, date_pairs>>
    /\ UNCHANGED <<queryVars, downloadVars, fieldVars, leaderboardVars, addVars>>

NextSplit ==
    \/ SplitEnter \/ SplitLiteral \/ SplitFirstSeason
    \/ SeasonEnter \/ SeasonsDone \/ WindowPass \/ WindowsDone

SpecSplit == Init /\ [][NextSplit]_vars /\ WF_vars(NextSplit)

-----------------------------------------------------------------------------
(* SpecDownload: download_files.  The calling thread submits one           *)
(* make_request task for each parameter set and sleeps a second after each; *)
(* the tasks run on the threads of the pool and write to one io.StringIO.  *)
(* A line of a response is <<i, k>>: line k of the body of request i.      *)

\* What the remote service does with a request: a body of some lines, an
\* error status, or no answer
Answers ==
    [status : {"ok"}, lines : 0 .. MaxLines]
        \cup [status : {"http_error", "connection_error"}, lines : {0}]

\* download_files(url, params): output = io.StringIO()
Download ==
    /\ dl_pc = "idle"
    /\ \E n \in 0 .. MaxRequests : responses' \in [1 .. n -> Answers]
    /\ dl_pc' = "submit"
    /\ submitted' = 0
    /\ worker' = <<>>
    /\ output' = <<>>
    /\ raised' = "none"
    /\ UNCHANGED <<queryVars, fieldVars, leaderboardVars, splitVars, addVars>>

\* pool.submit(make_request, url, output, params=param): the Future that
\* submit returns is dropped
Submit ==
    /\ dl_pc = "submit"
    /\ submitted < Len(responses)
    /\ submitted' = submitted + 1
    /\ worker' = Append(worker, [at |-> "get", written |-> 0, gets |-> 0])
    /\ dl_pc' = "sleep"
    /\ UNCHANGED <<responses, output, raised>>
    /\ UNCHANGED <<queryVars, fieldVars, leaderboardVars, splitVars, addVars>>

\* time.sleep(1) returns
Sleep ==
    /\ dl_pc = "sleep"
    /\ dl_pc' = "submit"
    /\ UNCHANGED <<responses, submitted, worker, output, raised>>
    /\ UNCHANGED <<queryVars, fieldVars, leaderboardVars, splitVars, addVars>>

\* make_request: requests.get(...) and response.raise_for_status().  An
\* exception ends the task and is kept in its Future.
Get ==
    /\ \E i \in DOMAIN worker :
        /\ worker[i].at = "get"
        /\ worker' = [worker EXCEPT
                        ![i].at = IF responses[i].status = "ok" THEN "iter_lines"
                                  ELSE "failed",
                        ![i].gets = @ + 1]
    /\ UNCHANGED <<dl_pc, responses, submitted, output, raised>>
    /\ UNCHANGED <<queryVars, fieldVars, leaderboardVars, splitVars, addVars>>

\* make_request: one pass of "for line in response.iter_lines():
\* output.write(line + "\n")"
WriteLine ==
    /\ \E i \in DOMAIN worker :
        /\ worker[i].at = "iter_lines"
        /\ worker[i].written < responses[i].lines
        /\ output' = Append(output, <<i, worker[i].written + 1>>)
        /\ worker' = [worker EXCEPT ![i].written = @ + 1]
    /\ UNCHANGED <<dl_pc, responses, submitted, raised>>
    /\ UNCHANGED <<queryVars, fieldVars, leaderboardVars, splitVars, addVars>>

\* make_request: the body is exhausted, tasks_complete += 1, return output
Finish ==
    /\ \E i \in DOMAIN worker :
        /\ worker[i].at = "iter_lines"
        /\ worker[i].written = responses[i].lines
        /\ worker' = [worker EXCEPT ![i].at = "done"]
    /\ UNCHANGED <<dl_pc, responses, submitted, output, raised>>
    /\ UNCHANGED <<queryVars, fieldVars, leaderboardVars, splitVars, addVars>>

\* "return output" without the wait of ThreadPoolExecutor.__exit__, as with
\* pool.shutdown(wait=False)
ReturnAtOnce ==
    /\ dl_pc = "submit"
    /\ submitted = Len(responses)
    /\ dl_pc' = "returned"
    /\ UNCHANGED <<responses, submitted, worker, output, raised>>
    /\ UNCHANGED <<queryVars, fieldVars, leaderboardVars, splitVars, addVars>>

\* the with block ends: ThreadPoolExecutor.__exit__ waits for every task,
\* then "return output".  No Future's result() is asked for, so no task's
\* exception reaches this thread.
Return ==
    /\ dl_pc = "submit"
    /\ submitted = Len(responses)
    /\ \A i \in DOMAIN worker : worker[i].at \in {"done", "failed"}
    /\ dl_pc' = "returned"
    /\ UNCHANGED <<responses, submitted, worker, output, raised>>
    /\ UNCHANGED <<queryVars, fieldVars, leaderboardVars, splitVars, addVars>>

NextDownload == Download \/ Submit \/ Sleep \/ Get \/ WriteLine \/ Finish \/ Return

SpecDownload == Init /\ [][NextDownload]_vars

-----------------------------------------------------------------------------
(* SpecField: get_params of a field of the collection, then get_values on  *)
(* the parameters it made                                                  *)

\* the player ids given: ids of the lookup table and one that is not
PlayerIds == KnownIds \cup {"bogus"}
RECURSIVE SeqsUpTo(_, _)
SeqsUpTo(S, n) ==
    IF n = 0 THEN {<<>>}
    ELSE SeqsUpTo(S, n - 1) \cup {Append(s, x) : s \in SeqsUpTo(S, n - 1), x \in S}
PlayerArgs ==
    {PyNone} \cup {PyStr(p) : p \in PlayerIds}
        \cup {PyList([i \in DOMAIN s |-> PyStr(s[i])]) : s \in SeqsUpTo(PlayerIds, MaxPlayers)}
StandArgs ==
    {PyNone, PyList(<<PyStr("left"), PyStr("right")>>)}
        \cup {PyStr(v) : v \in {"left", "right", "Left", "L", "R", "l", "sideways"}}
        \cup {PyList(<<PyStr(v)>>) : v \in {"left", "R"}}
DateArgs ==
    {PyNone, BadValues.float_date, BadValues.two_dates, PyStr("bogus"),
     PyDateStr(<<LastYear, 2, 30>>)}
        \cup DateStrArgs \cup {PyDate(d) : d \in DateCandidates}

\* pitch types by name, by slug and by alias, alone and in lists
PitchTypeNames ==
    {"four-seam", "sinker", "curveball", "fastball", "FF", "SI", "CU",
     "Sinker", "Fastball", "sideways", "other", "4.5"}
PitchTypeArgs ==
    {PyNone} \cup {PyStr(v) : v \in PitchTypeNames}
        \cup {PyList(<<PyStr(v), PyStr(w)>>) : v, w \in PitchTypeNames}
        \cup {PyList(<<PyStr("CU"), PyStr("sinker"), PyStr("fastball")>>)}
\* the bounds of a metric: numbers, numeric strings, None and values of
\* other types, alone and in sequences of one, two and three
MetricBounds ==
    {PyNone, PyStr("3")} \cup {PyInt(n) : n \in {-1, 0, 3, 5, 8, 10}}
MetricArgs ==
    {PyNone, PyStr(""), PyStr("5"), PyStr("sideways"), PyFloat(3), PyFloat(0),
     PyDate(Date(LastYear, 4, 1)), PyDateStr(<<LastYear, 4, 1>>), PyList(<<>>)}
        \cup {PyInt(n) : n \in {0, 5, 10}}
        \cup {PyList(<<v>>) : v \in {PyInt(5), PyStr("5"), PyNone, PyDate(Date(LastYear, 4, 1))}}
        \cup {PyList(<<v, w>>) : v, w \in MetricBounds}
        \cup {PyList(<<PyInt(3), PyInt(5), PyInt(8)>>),
              PyList(<<PyInt(3), PyDate(Date(LastYear, 4, 1))>>)}

\* the values a caller may give to each field
FieldArgs ==
    [name \in DOMAIN SearchFields |->
        CASE name = "pitchers" -> PlayerArgs
          [] name = "stand" -> StandArgs
          [] name = "year" -> YearArgs \cup {PyNone, BadValues.unknown_year, PyStr("2021")}
          [] name = "pitch_type" -> PitchTypeArgs
          [] name \in {"release_speed", "launch_angle", "spin_rate"} -> MetricArgs
          [] OTHER -> DateArgs]

\* field.get_params(values)
Encode ==
    /\ f_pc = "idle"
    /\ \E name \in DOMAIN SearchFields :
        \E values \in FieldArgs[name] :
            /\ f_field' = name
            /\ f_in' = values
            /\ f_out' = get_params(SearchFields[name], values)
    /\ f_pc' = "encoded"
    /\ UNCHANGED f_values
    /\ UNCHANGED <<queryVars, downloadVars, leaderboardVars, splitVars, addVars>>

\* field.get_values(params) on the parameters get_params returned
Decode ==
    /\ f_pc = "encoded"
    /\ f_out.err = "none"
    /\ f_values' = get_values(SearchFields[f_field], f_out.val)
    /\ f_pc' = "decoded"
    /\ UNCHANGED <<f_field, f_in, f_out>>
    /\ UNCHANGED <<queryVars, downloadVars, leaderboardVars, splitVars, addVars>>

NextField == Encode \/ Decode

SpecField == Init /\ [][NextField]_vars

-----------------------------------------------------------------------------
(* SpecLeaderboard: a LeaderboardQuery of the "swing_take" collection.  The *)
(* query object is the record [params, error].                             *)

\* _SWING_TAKE_GROUPS
SWING_TAKE_GROUPS ==
    ("Swing-Take" :> <<"swing", "take">>)
        @@ ("Pitch Type" :> <<"fastball", "curve", "cutter", "changeup", "slider", "other">>)
        @@ ("Attack Region" :> <<"heart", "shadow", "chase", "waste">>)
        @@ ("Bat-side" :> <<"R", "L">>)

\* the fields of the collection whose parameters LeaderboardQuery reads:
\* "type" and "sub_type".  A choice is given by its name or by its slug.
GroupField ==
    [name |-> "group", slug |-> "type", field_type |-> "single-select",
     choices |-> ("all" :> "All") @@ ("swing-take" :> "Swing-Take")
                    @@ ("pitch type" :> "Pitch Type")
                    @@ ("attack region" :> "Attack Region")
                    @@ ("bat-side" :> "Bat-side"),
     frequencies |-> EmptyDict]
SubgroupSlugs ==
    UNION {Range(SWING_TAKE_GROUPS[g]) : g \in DOMAIN SWING_TAKE_GROUPS}
SubgroupField ==
    [name |-> "subgroup", slug |-> "sub_type", field_type |-> "single-select",
     choices |-> [n \in {Lower(v) : v \in SubgroupSlugs} |->
                     CHOOSE v \in SubgroupSlugs : Lower(v) = n],
     frequencies |-> EmptyDict]
SwingTakeFields == ("group" :> GroupField) @@ ("subgroup" :> SubgroupField)

\* Query._add_param: self.params |= field.get_params(values)
Query_add_params(q, new_params) ==
    IF new_params.err # "none" THEN [q EXCEPT !.error = new_params.err]
    ELSE [q EXCEPT !.params = Merge(q.params, new_params.val)]
Query_add_param(q, field, values) == Query_add_params(q, get_params(field, values))

\* Query.__init__ of a query that does not override _add_param
RECURSIVE Query_init_base(_, _, _)
Query_init_base(q, fields, kw) ==
    IF kw = <<>> \/ q.error # "none" THEN q
    ELSE IF kw[1][1] \notin DOMAIN fields THEN [q EXCEPT !.error = "FieldNameError"]
    ELSE Query_init_base(Query_add_param(q, fields[kw[1][1]], kw[1][2]), fields, Tail(kw))

\* LeaderboardQuery.__init__ after super().__init__, for the collection named
\* "swing_take": the check of the subgroup, then params["csv"] = ["true"]
SubgroupAllowed(group, subgroup) ==
    Lower(subgroup) \in Range(DictGet(SWING_TAKE_GROUPS, group, <<"">>))
LeaderboardQuery_check(q, group, subgroup) ==
    IF subgroup # "" /\ ~SubgroupAllowed(group, subgroup)
    THEN [q EXCEPT !.error = "InvalidSubgroupError"]
    ELSE [q EXCEPT !.params = Merge(q.params, "csv" :> <<"true">>)]
LeaderboardQuery_swing_take(q) ==
    IF q.error # "none" THEN q
    ELSE IF "type" \notin DOMAIN q.params THEN [q EXCEPT !.error = "KeyError"]
    ELSE LeaderboardQuery_check(q, q.params["type"][1],
                                DictGet(q.params, "sub_type", <<"">>)[1])
LeaderboardQuery_init(kw) ==
    LeaderboardQuery_swing_take(
        Query_init_base([params |-> EmptyDict, error |-> "none"], SwingTakeFields, kw))

\* the calls of swing_take(group=..., subgroup=...): every group by its slug,
\* every subgroup of the table by its slug, no subgroup, and a few names
GroupArgs ==
    {PyStr(g) : g \in Range(GroupField.choices)} \cup {PyStr("swing-take"), PyStr("sideways")}
SubgroupArgs ==
    {PyNone, PyStr("Swing"), PyStr("sideways")} \cup {PyStr(v) : v \in SubgroupSlugs}
LeaderboardCalls ==
    {<< <<"group", g>>, <<"subgroup", sg>> >> : g \in GroupArgs, sg \in SubgroupArgs}
        \cup {<< <<"subgroup", PyStr("swing")>> >>,
              << <<"group", PyStr("Swing-Take")>> >>,
              << <<"group", PyStr("Swing-Take")>>, <<"pitch_speed", PyStr("swing")>> >>}

\* LeaderboardQuery(url, collection, **kwargs)
LeaderboardConstruct ==
    /\ lb_pc = "start"
    /\ \E kw \in LeaderboardCalls :
        \E q \in {LeaderboardQuery_init(kw)} :
            /\ lb_kwargs' = kw
            /\ lb_params' = q.params
            /\ lb_error' = q.error
            /\ lb_pc' = IF q.error = "none" THEN "built" ELSE "error"
    /\ UNCHANGED <<lb_requests, lb_issued>>
    /\ UNCHANGED <<queryVars, downloadVars, fieldVars, splitVars, addVars>>

\* the calls of request() made on one query object
MaxRequestCalls == 2

\* Query.request: _prepare_requests appends params to requests_to_make,
\* which is handed to download_files; the list is the object's and is
\* never emptied
LeaderboardRequest ==
    /\ lb_pc \in {"built", "requested"}
    /\ Len(lb_requests) < MaxRequestCalls
    /\ lb_requests' = Append(lb_requests, lb_params)
    /\ lb_issued' = lb_requests'
    /\ lb_pc' = "requested"
    /\ UNCHANGED <<lb_kwargs, lb_params, lb_error>>
    /\ UNCHANGED <<queryVars, downloadVars, fieldVars, splitVars, addVars>>

NextLeaderboard == LeaderboardConstruct \/ LeaderboardRequest

SpecLeaderboard == Init /\ [][NextLeaderboard]_vars

-----------------------------------------------------------------------------
(* SpecAddParam: one call of _add_param, as SearchQuery overrides it and as *)
(* Query defines it, on the same query, field and value.                   *)

\* the values that are falsy: None, "", an empty sequence, 0 and 0.0
EmptyValues == {PyNone, PyStr(""), PyList(<<>>), PyInt(0), PyFloat(0)}

\* the queries the call is made on: a new one, and two that hold parameters
AddParamQueries ==
    {NewQuery,
     SearchQuery_init(<< <<"year", PyList(<<PyStr(YearStr(LastYear))>>)>>,
                         <<"stand", PyStr("left")>> >>),
     SearchQuery_init(<< <<"year", PyList(<<PyStr(YearStr(LastYear))>>)>>,
                         <<"release_speed", PyList(<<PyInt(3), PyInt(5)>>)>>,
                         <<"pitchers", PyStr("543243")>> >>)}

\* self._add_param(field, values)
AddParam ==
    /\ ap_pc = "idle"
    /\ \E q \in AddParamQueries, name \in DOMAIN SearchFields :
        \E values \in EmptyValues \cup FieldArgs[name] :
            /\ ap_query' = q
            /\ ap_field' = name
            /\ ap_values' = values
            /\ ap_search' = SearchQuery_add_param(q, SearchFields[name], values)
            /\ ap_base' = Query_add_param(q, SearchFields[name], values)
    /\ ap_pc' = "added"
    /\ UNCHANGED <<queryVars, downloadVars, fieldVars, leaderboardVars, splitVars>>

NextAddParam == AddParam

SpecAddParam == Init /\ [][NextAddParam]_vars

-----------------------------------------------------------------------------
(* Properties of the request splitter (Spec) *)

\* the resolved dates of the query and of the i-th parameter set issued
QueryStart == Date_get_values(StartDateField, params)
QueryEnd == Date_get_values(EndDateField, params)
SubRanges ==
    [i \in DOMAIN issued |->
        [start |-> Date_get_values(StartDateField, issued[i]),
         end |-> Date_get_values(EndDateField, issued[i])]]

\* the splitter took the split branch
Split ==
    /\ pc = "requested"
    /\ PITCHES_PER_YEAR * frequency[1] >= MAX_ROWS_PER_REQUEST * frequency[2]

\* one request, whose parameters are the query's with its literal dates
OneLiteralRequest == issued = <<params>>

\* average rows of a day at full frequency
RowsPerDay == PITCHES_PER_GAME * GAMES_PER_DAY
\* rows-per-day x days in [start, end] x running frequency < ceiling
DayEstimateBelowCeiling ==
    RowsPerDay * (QueryEnd - QueryStart + 1) * frequency[1]
        < MAX_ROWS_PER_REQUEST * frequency[2]

\* C4 as the specification states it: whenever rows-per-day x days in
\* [start, end] x running frequency is below the ceiling, exactly one request
\* is issued and it carries the literal start and end dates.
C4_DayEstimate == pc = "requested" /\ DayEstimateBelowCeiling => OneLiteralRequest

\* C4: whenever the estimate the code makes, PITCHES_PER_YEAR x running
\* frequency (the days of the range are not counted), is below the ceiling,
\* exactly one request is issued and it carries the literal start and end dates.
C4_SeasonEstimate ==
    pc = "requested"
        /\ PITCHES_PER_YEAR * frequency[1] < MAX_ROWS_PER_REQUEST * frequency[2]
    => OneLiteralRequest

\* a query over more than one season whose estimate is below the ceiling has
\* been requested
C4_Witness ==
    /\ pc = "requested"
    /\ PITCHES_PER_YEAR * frequency[1] < MAX_ROWS_PER_REQUEST * frequency[2]
    /\ YearOf(QueryStart) < YearOf(QueryEnd)
    /\ Len(issued) = 1

\* day d lies in the season of its calendar year
InSeason(d) ==
    /\ YearOf(d) \in SeasonYears
    /\ SEASON_DATES[YearOf(d)].start <= d
    /\ d <= SEASON_DATES[YearOf(d)].end

\* Every day of the set Days lies in exactly one of the sub-ranges: the
\* sub-ranges' parts in Days make up Days, and there are as many pairs
\* <<sub-range, day of its part>> as days in Days, so no day is in two parts.
PartIn(r, Days) == (r.start .. r.end) \cap Days
ExactlyOnce(subs, Days) ==
    /\ UNION {PartIn(subs[i], Days) : i \in DOMAIN subs} = Days
    /\ Cardinality(UNION {{i} \X PartIn(subs[i], Days) : i \in DOMAIN subs})
            = Cardinality(Days)

\* C5 as the specification states it: in a split query every day of
\* [start, end] lies in exactly one emitted sub-range.
C5_EveryDayOnce == Split => ExactlyOnce(SubRanges, QueryStart .. QueryEnd)

\* C5: in a split query every day of [start, end] that lies in a season
\* (between its year's opening and closing day) lies in exactly one emitted
\* sub-range; days between seasons may lie in none or in two.
C5_SeasonDaysOnce ==
    Split => ExactlyOnce(SubRanges, {d \in QueryStart .. QueryEnd : InSeason(d)})

\* a query at frequency 1 from the opening day of one season to the closing
\* day of the season two years later has been split
C5_Witness ==
    /\ Split
    /\ frequency = ROne
    /\ \E y \in SeasonYears :
        /\ y + 2 \in SeasonYears
        /\ QueryStart = SEASON_DATES[y].start
        /\ QueryEnd = SEASON_DATES[y + 2].end
    /\ Len(issued) > 3

\* the seasons that have a day in sub-range r
SeasonsIn(r) ==
    {y \in SeasonYears : r.start <= SEASON_DATES[y].end /\ SEASON_DATES[y].start <= r.end}

\* C6: in a split query no emitted sub-range holds days of two different
\* seasons.
C6_OneSeasonPerRequest ==
    Split => \A i \in DOMAIN issued : Cardinality(SeasonsIn(SubRanges[i])) <= 1

\* a split query over several seasons, with a narrowing field, has been
\* requested
C6_Witness ==
    /\ Split
    /\ frequency # ROne
    /\ YearOf(QueryStart) < YearOf(QueryEnd)
    /\ \E i \in DOMAIN issued : SeasonsIn(SubRanges[i]) # {}
    /\ Len(issued) > 2

\* The window of an emitted pair is [range_start, range_end] of the loop; the
\* pair carries January 1st in place of range_start when the window starts
\* on its season's opening day.
WindowStart(pair) ==
    IF pair["game_date_gt"][1][2] = 1 /\ pair["game_date_gt"][1][3] = 1
    THEN SEASON_DATES[pair["game_date_gt"][1][1]].start
    ELSE Date_get_values(StartDateField, pair)
DaysInWindow(pair) == Date_get_values(EndDateField, pair) - WindowStart(pair) + 1

\* C7: in a split query, for every emitted request, days in its window x
\* rows-per-day (325 x 15) x running frequency is at most the ceiling.
C7_WindowBelowCeiling ==
    Split => \A i \in DOMAIN issued :
                DaysInWindow(issued[i]) * RowsPerDay * frequency[1]
                    <= MAX_ROWS_PER_REQUEST * frequency[2]

\* a split query has a window of more than one day
C7_Witness ==
    /\ Split
    /\ \E i \in DOMAIN issued : DaysInWindow(issued[i]) > 1

-----------------------------------------------------------------------------
(* Properties of query construction (Spec) *)

\* the value the call gives for a field; None when it gives none
KwArg(kw, name) ==
    IF \E i \in DOMAIN kw : kw[i][1] = name
    THEN kw[CHOOSE i \in DOMAIN kw : kw[i][1] = name][2]
    ELSE PyNone

\* every argument names a field of the collection and validates
ArgumentsValid(kw) ==
    \A i \in DOMAIN kw :
        /\ kw[i][1] \in DOMAIN SearchFields
        /\ Truthy(kw[i][2]) => get_params(SearchFields[kw[i][1]], kw[i][2]).err = "none"

ValidationErrors ==
    {"FieldNameError", "FieldValueError", "FieldTypeError", "TooManyValuesError",
     "InvalidBoundError", "LessThanLowerBoundError", "MoreThanUpperBoundError",
     "IdNotFoundError", "ValueError", "IndexError", "KeyError"}

\* C8: a parameter set is handed to the transport only for a query all of
\* whose arguments validated and whose bounds are in order; a query whose
\* construction raised has no request issued.
C8_ValidatedBeforeGet ==
    /\ issued # <<>> => /\ ArgumentsValid(kwargs)
                         /\ QueryStart <= QueryEnd
                         /\ error = "none"
    /\ error \in ValidationErrors => issued = <<>> /\ requests_to_make = <<>>

\* the construction of a query raised on a value that does not validate
C8_Witness ==
    /\ pc = "error"
    /\ ~ArgumentsValid(kwargs)
    /\ error \in {"FieldValueError", "TooManyValuesError", "FieldTypeError", "FieldNameError"}
    /\ issued = <<>>

\* the seasons the call names
NamedSeasons(kw) ==
    IF IsSequenceValue(KwArg(kw, "year"))
    THEN {IntOfStr(StrOf(KwArg(kw, "year").v[i])) : i \in DOMAIN KwArg(kw, "year").v}
    ELSE {}
Earliest(S) == CHOOSE y \in S : \A z \in S : y <= z
Latest(S) == CHOOSE y \in S : \A z \in S : z <= y

\* C9: a query built without a start (end) date has the opening day of the
\* earliest (the closing day of the latest) season the call names as its
\* start (end) bound.
C9_SeasonDefaults ==
    pc = "built" /\ NamedSeasons(kwargs) # {} =>
        /\ KwArg(kwargs, "start_date") = PyNone =>
                QueryStart = SEASON_DATES[Earliest(NamedSeasons(kwargs))].start
        /\ KwArg(kwargs, "end_date") = PyNone =>
                QueryEnd = SEASON_DATES[Latest(NamedSeasons(kwargs))].end

\* a query built from several seasons and no dates runs from the first
\* season's opening day to the last season's closing day
C9_Witness ==
    /\ pc = "built"
    /\ Cardinality(NamedSeasons(kwargs)) = 2
    /\ KwArg(kwargs, "start_date") = PyNone
    /\ KwArg(kwargs, "end_date") = PyNone
    /\ QueryStart = SEASON_DATES[Earliest(NamedSeasons(kwargs))].start
    /\ QueryEnd = SEASON_DATES[Latest(NamedSeasons(kwargs))].end

\* the joined season parameter of the years lo .. hi
RECURSIVE YearTokens(_, _)
YearTokens(lo, hi) ==
    IF lo > hi THEN <<>> ELSE <<YearStr(lo), "|">> \o YearTokens(lo + 1, hi)

\* C10: after update_years the season parameter holds every year from the
\* start date's year through the end date's year, and the dates the call
\* gave are still the date parameters.
C10_YearsOfDates ==
    pc \in {"built", "requested"} /\ updated > 0 =>
        /\ params["hfSea"] = <<YearTokens(YearOf(QueryStart), YearOf(QueryEnd))>>
        /\ KwArg(kwargs, "start_date") # PyNone =>
                params["game_date_gt"] = <<KwArg(kwargs, "start_date").v>>
        /\ KwArg(kwargs, "end_date") # PyNone =>
                params["game_date_lt"] = <<KwArg(kwargs, "end_date").v>>

\* update_years was called on pitcher "543243" from 2021-04-01 to 2021-04-10
C10_Witness ==
    /\ pc = "built"
    /\ updated = 1
    /\ KwArg(kwargs, "pitchers") = PyStr("543243")
    /\ params["game_date_gt"] = << <<2021, 4, 1>> >>
    /\ params["game_date_lt"] = << <<2021, 4, 10>> >>
    /\ params["hfSea"] = << <<"2021", "|">> >>

-----------------------------------------------------------------------------
(* Properties of download_files (SpecDownload) *)

\* a request of the call got no answer or an error status
SomeRequestFailed == \E i \in DOMAIN responses : responses[i].status # "ok"

\* C1: download_files returns a text only when every request of the call
\* succeeded; when a request fails, the failure reaches the caller and no
\* text that lacks the failed request's data is returned.
C1_FailurePropagates == dl_pc = "returned" => ~SomeRequestFailed /\ raised = "none"

\* a call returned although one of its requests failed
C1_Witness == dl_pc = "returned" /\ SomeRequestFailed /\ raised = "none"

\* the bodies of requests 1 .. n, one after the other
RECURSIVE Bodies(_)
Bodies(n) ==
    IF n = 0 THEN <<>>
    ELSE Bodies(n - 1) \o [k \in 1 .. responses[n].lines |-> <<n, k>>]

\* C2: the text download_files returns is the bodies of its requests in the
\* order of submission, each body in one piece.
C2_SubmissionOrder == dl_pc = "returned" => output = Bodies(Len(responses))

\* a call returned a text in which the lines of two requests alternate
C2_Witness ==
    /\ dl_pc = "returned"
    /\ \E i, j, k \in DOMAIN output :
        /\ i < j /\ j < k
        /\ output[i][1] = output[k][1]
        /\ output[j][1] # output[i][1]

-----------------------------------------------------------------------------
(* Properties of PlayerField (SpecField) *)

\* the strings of a value given to a field
GivenStrings(values) ==
    IF IsSequenceValue(values) THEN [i \in DOMAIN values.v |-> StrOf(values.v[i])]
    ELSE <<StrOf(values)>>
\* the given identifiers that exist in the lookup table, sorted
KnownSorted(values) ==
    SortedList(SelectSeq(GivenStrings(values), LAMBDA v : v \in KnownIds))

\* C3 as the specification states it: PlayerField.get_params raises on no
\* identifier; the parameter holds the given identifiers that exist in the
\* lookup table, and the others are dropped.
C3_UnknownIdsDropped ==
    f_pc # "idle" /\ f_field = "pitchers" /\ Truthy(f_in) =>
        f_out = Ok(PitchersField.slug :> KnownSorted(f_in))

\* C3: PlayerField.get_params raises IdNotFoundError when a given identifier
\* is not in the lookup table; when all are, the parameter holds the given
\* identifiers, sorted.
C3_UnknownIdRaises ==
    f_pc # "idle" /\ f_field = "pitchers" /\ Truthy(f_in) =>
        IF \A i \in DOMAIN GivenStrings(f_in) : GivenStrings(f_in)[i] \in KnownIds
        THEN f_out = Ok(PitchersField.slug :> KnownSorted(f_in))
        ELSE f_out = Raise("IdNotFoundError")

\* get_params raised on a list that holds a known and an unknown identifier
C3_Witness ==
    /\ f_pc = "encoded"
    /\ f_in = PyList(<<PyStr("123456"), PyStr("bogus")>>)
    /\ f_out.err = "IdNotFoundError"

-----------------------------------------------------------------------------
(* Properties of the resolved dates (Spec) *)

\* the date a caller gave, as a date
GivenDate(x) == IF x.t = "dstr" THEN Strptime(x.v).val ELSE x.v
\* the bounds of the call after the missing ones are taken from the season
\* table: the given date, else the opening (closing) day of the earliest
\* (latest) season the call names
ResolvedStart(kw) ==
    IF Truthy(KwArg(kw, "start_date")) THEN GivenDate(KwArg(kw, "start_date"))
    ELSE SEASON_DATES[Earliest(NamedSeasons(kw))].start
ResolvedEnd(kw) ==
    IF Truthy(KwArg(kw, "end_date")) THEN GivenDate(KwArg(kw, "end_date"))
    ELSE SEASON_DATES[Latest(NamedSeasons(kw))].end

\* C11: when every argument validates and, after the missing bounds are
\* taken from the season table, the start date is later than the end date,
\* the construction of the SearchQuery raises InvalidBoundError and no
\* request is prepared or issued for it.
C11_StartAfterEnd ==
    pc # "start" /\ ArgumentsValid(kwargs) /\ NamedSeasons(kwargs) # {}
        /\ ResolvedStart(kwargs) > ResolvedEnd(kwargs) =>
            /\ pc = "error"
            /\ error = "InvalidBoundError"
            /\ requests_to_make = <<>>
            /\ issued = <<>>

\* a call that gives only a start date, one after its season's closing day
C11_Witness ==
    /\ pc = "error"
    /\ error = "InvalidBoundError"
    /\ KwArg(kwargs, "start_date") # PyNone
    /\ KwArg(kwargs, "end_date") = PyNone
    /\ ResolvedStart(kwargs) > SEASON_DATES[Latest(NamedSeasons(kwargs))].end

-----------------------------------------------------------------------------
(* Properties of MetricField (SpecField) *)

\* the field given to get_params is a metric field
OnMetricField == f_pc # "idle" /\ SearchFields[f_field].field_type = "metric-range"
\* a bound given as a number or as a numeric string, and its value
IsNumber(x) ==
    \/ x.t \in {"int", "float"}
    \/ x.t = "str" /\ x.v \in DOMAIN NumberStrs
NumberOf(x) == IF x.t = "str" THEN NumberStrs[x.v] ELSE x.v
\* the domain [min_value, max_value] the field declares holds the number
InDomain(field, n) ==
    /\ field.min_value # PyNone => field.min_value.v <= n
    /\ field.max_value # PyNone => n <= field.max_value.v
\* get_params was given two numbers
GivenTwoNumbers ==
    /\ OnMetricField
    /\ IsSequenceValue(f_in)
    /\ Len(f_in.v) = 2
    /\ IsNumber(f_in.v[1])
    /\ IsNumber(f_in.v[2])

\* C12: MetricField.get_params, given two numbers of the field's domain of
\* which the lower is greater than the upper, raises InvalidBoundError and
\* returns no parameters.
C12_ReversedBoundsRaise ==
    /\ GivenTwoNumbers
    /\ InDomain(SearchFields[f_field], NumberOf(f_in.v[1]))
    /\ InDomain(SearchFields[f_field], NumberOf(f_in.v[2]))
    /\ NumberOf(f_in.v[1]) > NumberOf(f_in.v[2])
    => f_out = Raise("InvalidBoundError")

\* get_params([5, 0]) returned the parameters of the reversed range
C12_Witness ==
    /\ OnMetricField
    /\ f_in = PyList(<<PyInt(5), PyInt(0)>>)
    /\ f_out.err = "none"
    /\ f_out.val["metric_gt"] = <<FloatStr(5)>>
    /\ f_out.val["metric_lt"] = <<FloatStr(0)>>

\* get_params was given a lower and an upper bound, each None or a number
IsBound(x) == x = PyNone \/ IsNumber(x)
GivenBounds ==
    /\ OnMetricField
    /\ IsSequenceValue(f_in)
    /\ Len(f_in.v) = 2
    /\ IsBound(f_in.v[1])
    /\ IsBound(f_in.v[2])
\* a bound that is a number other than 0
NonZero(x) == IsNumber(x) /\ NumberOf(x) # 0
BelowDomain(field, x) ==
    NonZero(x) /\ field.min_value # PyNone /\ NumberOf(x) < field.min_value.v
AboveDomain(field, x) ==
    NonZero(x) /\ field.max_value # PyNone /\ NumberOf(x) > field.max_value.v
\* the string of a bound as it was given, and of a bound moved into the
\* field's domain
GivenStr(x) == IF x = PyNone THEN <<>> ELSE FloatStr(NumberOf(x))
ClampedNumber(field, n) ==
    IF field.min_value # PyNone /\ n < field.min_value.v THEN field.min_value.v
    ELSE IF field.max_value # PyNone /\ n > field.max_value.v THEN field.max_value.v
    ELSE n
ClampedStr(field, x) ==
    IF x = PyNone THEN <<>> ELSE FloatStr(ClampedNumber(field, NumberOf(x)))
MetricParams(field, lower, upper) ==
    Ok(("metric" :> <<field.slug>>) @@ ("metric_gt" :> <<lower>>)
           @@ ("metric_lt" :> <<upper>>))

GivenOneNumber ==
    /\ OnMetricField
    /\ \/ IsNumber(f_in)
       \/ IsSequenceValue(f_in) /\ Len(f_in.v) = 1 /\ IsNumber(f_in.v[1])
TheOneNumber == IF IsSequenceValue(f_in) THEN f_in.v[1] ELSE f_in

\* C14: MetricField.get_params, given exactly one number that the field's
\* domain does not exclude, as a scalar or as a sequence of length one,
\* raises nothing and encodes the number as the lower and as the upper bound.
C14_OneValueBothBounds ==
    /\ GivenOneNumber
    /\ ~BelowDomain(SearchFields[f_field], TheOneNumber)
    /\ ~AboveDomain(SearchFields[f_field], TheOneNumber)
    => f_out = MetricParams(SearchFields[f_field], GivenStr(TheOneNumber),
                            GivenStr(TheOneNumber))

\* get_params([5]) raised IndexError
C14_Witness ==
    /\ OnMetricField
    /\ f_in = PyList(<<PyInt(5)>>)
    /\ f_out = Raise("IndexError")

-----------------------------------------------------------------------------
(* Properties of LeaderboardQuery (SpecLeaderboard) *)

\* the call names a group of the table and a subgroup the collection knows,
\* or no subgroup
LbGroup == lb_params["type"][1]
LbSubgroup == DictGet(lb_params, "sub_type", <<"">>)[1]
GroupOfTable ==
    /\ lb_pc # "start"
    /\ lb_error \in {"none", "InvalidSubgroupError"}
    /\ LbGroup \in DOMAIN SWING_TAKE_GROUPS

\* C15: for a group of the group -> allowed-subgroups table, the construction
\* of the LeaderboardQuery succeeds exactly when no subgroup is given or the
\* subgroup is one of the group's allowed subgroups; otherwise it raises
\* InvalidSubgroupError and no request is issued.
C15_SubgroupOfGroup ==
    GroupOfTable =>
        IF LbSubgroup = "" \/ LbSubgroup \in Range(SWING_TAKE_GROUPS[LbGroup])
        THEN lb_error = "none"
        ELSE lb_error = "InvalidSubgroupError" /\ lb_pc = "error" /\ lb_issued = <<>>

\* subgroup "R" under group "Bat-side" raised InvalidSubgroupError
C15_Witness ==
    /\ lb_pc = "error"
    /\ lb_error = "InvalidSubgroupError"
    /\ LbGroup = "Bat-side"
    /\ LbSubgroup = "R"
    /\ lb_issued = <<>>

-----------------------------------------------------------------------------
(* Properties of the round trip get_values(get_params(v)) (SpecField) *)

\* the slug a single-select value names, "" for no value
OneSlug(field, values) ==
    IF ~Truthy(values) THEN ""
    ELSE IF Lower(GivenStrings(values)[1]) \in DOMAIN field.choices
    THEN field.choices[Lower(GivenStrings(values)[1])]
    ELSE GivenStrings(values)[1]
\* the slugs the values of a multi-select name: a name stands for its slug,
\* an alias for its slugs, a slug for itself
SlugsOf(field, s) ==
    IF s \in DOMAIN field.choices THEN {field.choices[s]}
    ELSE IF s \in DOMAIN field.aliases THEN Range(field.aliases[s])
    ELSE {s}
AllSlugs(field, values) ==
    IF ~Truthy(values) THEN {}
    ELSE UNION {SlugsOf(field, s) : s \in Range(GivenStrings(values)) \ {""}}
\* the bound strings of a value given to a metric field
BoundStrs(values) ==
    IF ~Truthy(values) /\ ~IsZero(values) THEN << <<>>, <<>> >>
    ELSE IF IsSequenceValue(values) THEN <<GivenStr(values.v[1]), GivenStr(values.v[2])>>
    ELSE <<GivenStr(values), GivenStr(values)>>

\* the value get_values is to give back for the value get_params was given
Normalized(field, values) ==
    CASE field.field_type = "single-select" -> OneSlug(field, values)
      [] field.field_type = "multi-select" ->
            IF AllSlugs(field, values) = {} THEN <<"">>
            ELSE SortedSet(AllSlugs(field, values))
      [] field.field_type = "player-lookup" -> SortedList(GivenStrings(values))
      [] field.field_type = "date-range" ->
            IF Truthy(values) THEN GivenDate(values) ELSE NoDate
      [] field.field_type = "metric-range" -> BoundStrs(values)

\* C16 as the specification states it: for every field type, get_values on
\* the parameters get_params made of a valid value does not raise and gives
\* the value back up to normalization.
C16_RoundTripAllFields ==
    f_pc = "decoded" => f_values = Ok(Normalized(SearchFields[f_field], f_in))

\* C16: get_values on the parameters get_params made of a valid value never
\* raises.  For a single-select, multi-select, player and date field it
\* gives the value back up to normalization (a multi-select given no value
\* gives back [""]); for a metric field it gives back ("", "") whatever the
\* value was.
C16_RoundTrip ==
    f_pc = "decoded" =>
        f_values =
            IF SearchFields[f_field].field_type = "metric-range"
            THEN Ok(<< <<>>, <<>> >>)
            ELSE Ok(Normalized(SearchFields[f_field], f_in))

\* the bounds [3, 5] of a metric field were encoded and came back as ("", "")
C16_Witness ==
    /\ f_pc = "decoded"
    /\ f_field = "launch_angle"
    /\ f_in = PyList(<<PyInt(3), PyInt(5)>>)
    /\ f_out.val["metric_gt"] = <<FloatStr(3)>>
    /\ f_values = Ok(<< <<>>, <<>> >>)

-----------------------------------------------------------------------------
(* Properties of the multi-select encoding (SpecField) *)

OnMultiSelect ==
    /\ f_pc # "idle"
    /\ SearchFields[f_field].field_type = "multi-select"
    /\ f_out.err = "none"
\* the tokens of the encoded parameter: slugs and delimiters
EncodedTokens == f_out.val[SearchFields[f_field].slug][1]
\* the number of tokens n slugs make when joined by a delimiter
JoinedLen(n) == IF n = 0 THEN 0 ELSE 2 * n - 1
\* toks is slugs, each once, in ascending order, with a delimiter between
\* two of them, and a last delimiter if trailing
IsSortedJoin(toks, slugs, n, delimiter, trailing) ==
    /\ Len(toks) = JoinedLen(n) + (IF trailing THEN 1 ELSE 0)
    /\ \A i \in 1..n :
        /\ Unescape(toks[2 * i - 1]) \in slugs
        /\ toks[2 * i - 1] = Escape(Unescape(toks[2 * i - 1]))
    /\ \A i \in 1..(n - 1) :
        StrKey(Unescape(toks[2 * i - 1])) < StrKey(Unescape(toks[2 * i + 1]))
    /\ \A i \in 1..Len(toks) : i % 2 = 0 => toks[i] = delimiter
    /\ trailing => toks[Len(toks)] = delimiter

\* C17: when get_params of a multi-select field succeeds, the encoded
\* parameter is the distinct slugs its values name (a slug for itself, a
\* name for its slug, an alias for its slugs), each once, in ascending
\* order, joined by the delimiter and followed by the trailing delimiter
\* when the field has one.
C17_SortedDistinctSlugs ==
    OnMultiSelect =>
        IsSortedJoin(EncodedTokens,
                     AllSlugs(SearchFields[f_field], f_in),
                     Cardinality(AllSlugs(SearchFields[f_field], f_in)),
                     SearchFields[f_field].delimiter,
                     SearchFields[f_field].add_trailing_delimiter)

\* the alias "fastball" and the name "sinker" both name the slug SI, which
\* is encoded once
C17_Witness ==
    /\ OnMultiSelect
    /\ f_field = "pitch_type"
    /\ f_in = PyList(<<PyStr("fastball"), PyStr("sinker")>>)
    /\ EncodedTokens = <<"FF", "|", "SI", "|">>

-----------------------------------------------------------------------------
(* Properties of the advisories of a search query (Spec) *)

AdvisoryNames == {"only from 2008", "not before 2015", "today may be missing"}
\* the condition under which an advisory is due, on the bounds of the call
\* after the missing ones are taken from the season table
AdvisoryDue(m, start, end, now) ==
    CASE m = "only from 2008" -> start < Date(2008, 1, 1)
      [] m = "not before 2015" -> start < Date(2015, 1, 1)
      [] m = "today may be missing" -> end >= now

C18_WitnessToday ==
    /\ pc = "requested"
    /\ ResolvedEnd(kwargs) = today
    /\ messages = <<"today may be missing">>
    /\ issued # <<>>

-----------------------------------------------------------------------------
(* Properties of dates() (SpecDates) *)

\* the date an argument stands for, NoDate for None and ""
ArgDate(x) == IF Truthy(x) THEN GivenDate(x) ELSE NoDate
\* the default the documentation of dates() gives a date that is missing:
\* the other date if it is given, else today's date
DocumentedDefault(given, other, now) ==
    IF Truthy(given) THEN ArgDate(given)
    ELSE IF Truthy(other) THEN ArgDate(other)
    ELSE now
ThroughDates == dates_call # <<>>

\* C19: the start_date and end_date which dates() hands to query() are the
\* given ones; a missing one is the one that is given; when none is given
\* both are today's date.
C19_DatesDefaults ==
    ThroughDates =>
        /\ ArgDate(KwArg(kwargs, "start_date")) =
              DocumentedDefault(dates_call.start_date, dates_call.end_date,
                                dates_call.today)
        /\ ArgDate(KwArg(kwargs, "end_date")) =
              DocumentedDefault(dates_call.end_date, dates_call.start_date,
                                dates_call.today)

\* what dates() does: the end date defaults to the start date; when only
\* the end date is given both dates are today's; when none is given none
\* is handed on
C19_DatesAsCoded ==
    ThroughDates =>
        /\ Truthy(dates_call.start_date) =>
              /\ ArgDate(KwArg(kwargs, "start_date")) = ArgDate(dates_call.start_date)
              /\ ArgDate(KwArg(kwargs, "end_date")) =
                    ArgDate(PyOr(dates_call.end_date, dates_call.start_date))
        /\ ~Truthy(dates_call.start_date) /\ Truthy(dates_call.end_date) =>
              /\ ArgDate(KwArg(kwargs, "start_date")) = dates_call.today
              /\ ArgDate(KwArg(kwargs, "end_date")) = dates_call.today
        /\ ~Truthy(dates_call.start_date) /\ ~Truthy(dates_call.end_date) =>
              /\ ~Truthy(KwArg(kwargs, "start_date"))
              /\ ~Truthy(KwArg(kwargs, "end_date"))

\* only the end date was given, one that is not today's: the query was
\* made for today alone
C19_Witness ==
    /\ ThroughDates
    /\ pc = "requested"
    /\ dates_call.start_date = PyNone
    /\ ArgDate(dates_call.end_date) = SEASON_DATES[LastYear].start + 9
    /\ dates_call.today = SEASON_DATES[LastYear].start + 6
    /\ QueryStart = dates_call.today
    /\ QueryEnd = dates_call.today
\* no date was given: the query was made for the whole season
C19_WitnessNone ==
    /\ ThroughDates
    /\ pc = "requested"
    /\ dates_call.start_date = PyNone
    /\ dates_call.end_date = PyNone
    /\ QueryStart = SEASON_DATES[LastYear].start
    /\ QueryEnd = SEASON_DATES[LastYear].end

-----------------------------------------------------------------------------
(* Properties of the metric slots of a SearchQuery (Spec) *)

\* the slots k with a key metric_k in params
SlotsIn(p) == {k \in 1 .. 5 : MetricKey(k) \in DOMAIN p}
\* the keys of params that belong to a metric
MetricKeysIn(p) ==
    {key \in DOMAIN p :
        \/ key \in {"metric", "metric_gt", "metric_lt"}
        \/ \E k \in 1 .. 5 : key \in {MetricKey(k), MetricKeyGt(k), MetricKeyLt(k)}}
\* the metric fields the call gives a value _add_param does not skip, in
\* the order of the keyword arguments
RECURSIVE MetricsGiven(_)
MetricsGiven(kw) ==
    IF kw = <<>> THEN <<>>
    ELSE (IF /\ kw[1][1] \in DOMAIN SearchFields
             /\ SearchFields[kw[1][1]].field_type = "metric-range"
             /\ Truthy(kw[1][2])
          THEN <<kw[1]>> ELSE <<>>) \o MetricsGiven(Tail(kw))
\* slot k of params holds the k-th of the metric fields given
SlotHolds(p, k, given) ==
    /\ k <= Len(given)
    /\ p[MetricKey(k)] = <<SearchFields[given[k][1]].slug>>
    /\ MetricKeyGt(k) \in DOMAIN p
    /\ MetricKeyLt(k) \in DOMAIN p
    /\ <<p[MetricKeyGt(k)][1], p[MetricKeyLt(k)][1]>> = BoundStrs(given[k][2])

C20_WitnessSkipped ==
    /\ pc = "built"
    /\ KwArg(kwargs, "release_speed") = PyInt(0)
    /\ metric_counter = 2
    /\ params["metric_1"] = <<"api_h_launch_angle">>


-----------------------------------------------------------------------------
(* Properties of the running frequency of a SearchQuery (Spec) *)

\* the fields of the collection whose parameter is in params
FieldsAdded(p) ==
    {name \in DOMAIN SearchFields : SearchFields[name].slug \in DOMAIN p}
\* the product of the contributions of a set of fields, each taken once
RECURSIVE Contributions(_, _)
TimesRest(name, names, p) ==
    RMul(get_frequency(SearchFields[name], p), Contributions(names \ {name}, p))
Contributions(names, p) ==
    IF names = {} THEN ROne ELSE TimesRest(CHOOSE name \in names : TRUE, names, p)

\* C21: at every point of a SearchQuery's life, after construction and
\* after update_years, the running frequency is the product of the
\* frequency contributions of the fields added to the query, each field
\* contributing exactly once.
C21_FrequencyProduct ==
    pc \in {"built", "requested"} =>
        frequency = Contributions(FieldsAdded(params), params)

\* update_years has added the year field a second time, to a query built
\* with one season: the weight of the year is in the frequency twice
C21_Witness ==
    /\ pc = "built"
    /\ updated = 1
    /\ MultiSelect_get_values(YearField, params).val = <<YearStr(LastYear)>>
    /\ get_frequency(YearField, params) = <<1, 2>>
    /\ frequency = RMul(<<1, 2>>, Contributions(FieldsAdded(params), params))
\* until update_years is called every field was added once and the
\* frequency is the product
C21_OnceUntilUpdated ==
    (pc \in {"built", "requested"} /\ updated = 0) =>
        frequency = Contributions(FieldsAdded(params), params)


-----------------------------------------------------------------------------
(* Properties of the windows of a split query (Spec) *)

\* the season of an emitted pair: the year of its start date, which the loop
\* takes from that season
SeasonOf(pair) == pair["game_date_gt"][1][1]
\* min(season_end, end) for the season of an emitted pair
PortionEnd(pair) == Min(SEASON_DATES[SeasonOf(pair)].end, QueryEnd)

\* C22 as the specification states it: in a split query every emitted
\* window ends no later than min(season end, query end).
C22_EndsInPortion ==
    Split => \A i \in DOMAIN issued :
                Date_get_values(EndDateField, issued[i]) <= PortionEnd(issued[i])

\* C22: in a split query every emitted window starts no later than
\* min(season end, query end), so that windows are produced only until the
\* season's portion is exhausted, and ends no later than the query end and
\* no later than its start plus the window length; its end may lie after
\* the season's closing day.
C22_StartsInPortion ==
    Split => \A i \in DOMAIN issued :
                /\ WindowStart(issued[i]) <= PortionEnd(issued[i])
                /\ WindowStart(issued[i]) >= SEASON_DATES[SeasonOf(issued[i])].start
                /\ WindowStart(issued[i]) >= QueryStart
                /\ Date_get_values(EndDateField, issued[i])
                      = Min(QueryEnd, WindowStart(issued[i]) + WindowDays(frequency))

\* the last window of a season ends after the season's closing day, in a
\* query that goes on into the next year
C22_Witness ==
    /\ Split
    /\ \E i \in DOMAIN issued :
          /\ WindowStart(issued[i]) <= SEASON_DATES[SeasonOf(issued[i])].end
          /\ Date_get_values(EndDateField, issued[i])
                > SEASON_DATES[SeasonOf(issued[i])].end
          /\ Date_get_values(EndDateField, issued[i]) < QueryEnd


\* the loop's range_start of the i-th emitted pair: a season's first window
\* starts at max(season_start, start), every other one on the day after the
\* window before it
LoopStart(i) ==
    IF i = 1 \/ SeasonOf(issued[i]) # SeasonOf(issued[i - 1])
    THEN Max(SEASON_DATES[SeasonOf(issued[i])].start, QueryStart)
    ELSE Date_get_values(EndDateField, issued[i - 1]) + 1
\* the start date the i-th pair is to carry
StartToEmit(i) ==
    IF LoopStart(i) = SEASON_DATES[SeasonOf(issued[i])].start
    THEN <<SeasonOf(issued[i]), 1, 1>>
    ELSE IsoFormat(LoopStart(i))

\* C23: in a split query a window that starts on its season's opening day
\* is emitted with the start '{season}-01-01', and every other window with
\* its literal start date.
C23_OpeningDayRewritten ==
    Split => \A i \in DOMAIN issued : issued[i]["game_date_gt"] = <<StartToEmit(i)>>

\* a split query from a season's opening day, which is not January 1: its
\* first pair starts on January 1 and its second on a literal date
C23_Witness ==
    /\ Split
    /\ Len(issued) > 1
    /\ QueryStart = SEASON_DATES[YearOf(QueryStart)].start
    /\ issued[1]["game_date_gt"] = << <<YearOf(QueryStart), 1, 1>> >>
    /\ issued[2]["game_date_gt"]
          = <<IsoFormat(Date_get_values(EndDateField, issued[1]) + 1)>>
    /\ SeasonOf(issued[2]) = SeasonOf(issued[1])


-----------------------------------------------------------------------------
(* Properties of Query.request (SpecLeaderboard) *)

\* C24: each call of request() on a base Query or a LeaderboardQuery hands
\* the transport exactly one parameter set, the accumulated parameter map
\* as it is, also when request() is called more than once on the same query
\* object.
C24_OneSetPerRequest ==
    lb_pc = "requested" => lb_issued = <<lb_params>>

\* request() was called a second time: the transport is handed the
\* parameter map twice
C24_Witness ==
    /\ lb_pc = "requested"
    /\ Len(lb_requests) = 2
    /\ lb_issued = <<lb_params, lb_params>>
\* the first call of request() hands the parameter map once
C24_FirstCallOneSet ==
    (lb_pc = "requested" /\ Len(lb_requests) = 1) => lb_issued = <<lb_params>>
\* the n-th call of request() hands n parameter sets, each the parameter map
C24_CallsAccumulate ==
    lb_pc = "requested" =>
        /\ lb_issued = lb_requests
        /\ Len(lb_issued) \in 1 .. MaxRequestCalls
        /\ \A i \in DOMAIN lb_issued : lb_issued[i] = lb_params


-----------------------------------------------------------------------------
(* Properties of the list handed to the transport (Spec) *)

\* C25: for every SearchQuery with start <= end within the years of the
\* season table, request preparation yields at least one request:
\* requests_to_make is not empty when the transport is called, whatever the
\* running frequency and wherever the range lies relative to the seasons.
C25_SomeRequest ==
    pc = "requested" => issued # <<>>

\* a split query whose range holds no day of a season has been requested:
\* the transport is handed an empty list
C25_Witness ==
    /\ Split
    /\ QueryStart <= QueryEnd
    /\ YearOf(QueryStart) \in SeasonYears
    /\ YearOf(QueryEnd) \in SeasonYears
    /\ \A d \in QueryStart .. QueryEnd : ~InSeason(d)
    /\ issued = <<>>
\* a request is missing only for a split query without a day in a season
C25_SomeRequestInSeason ==
    pc = "requested" =>
        (issued = <<>>) = (Split /\ \A d \in QueryStart .. QueryEnd : ~InSeason(d))


-----------------------------------------------------------------------------
(* Properties of the loops of _get_date_pairs (SpecSplit) *)

\* C26: the splitting loop of _get_date_pairs terminates for every
\* start <= end within the years of the season table and every running
\* frequency above 0: each pass of the window loop moves range_start forward
\* by at least one day, and every call comes to return.
C26_LoopTerminates ==
    /\ [][(sp_pc = "while" /\ sp_pc' = "while") => sp_range_start' >= sp_range_start + 1]_vars
    /\ <>(sp_pc = "returned")

\* a split call over two seasons with the longest window has returned, and
\* a season of it took more than one pass
C26_Witness ==
    /\ sp_pc = "returned"
    /\ sp_frequency = <<1, 50>>
    /\ YearOf(sp_start) < YearOf(sp_end)
    /\ \E i \in DOMAIN date_pairs :
          i > 1 /\ date_pairs[i][1][1] = date_pairs[i - 1][1][1]
\* the pairs the passes leave are the pairs the query's request() is given
C26_SamePairs ==
    sp_pc = "returned" => date_pairs = DatePairs(sp_start, sp_end, sp_frequency).val

-----------------------------------------------------------------------------
(* Properties of the return of download_files (SpecDownload) *)

\* C27: download_files returns only after every submitted request has
\* finished, completed or failed: one task was submitted for each parameter
\* set and made exactly one GET, and once the text is handed back no task
\* writes to the shared buffer.
C27_ReturnsAfterAll ==
    /\ [](dl_pc = "returned" =>
            /\ Len(worker) = Len(responses)
            /\ \A i \in DOMAIN worker :
                  worker[i].at \in {"done", "failed"} /\ worker[i].gets = 1)
    /\ [][dl_pc = "returned" => (output' = output /\ worker' = worker)]_vars

\* a call of two requests returned: one wrote its whole body, the other
\* failed, and lines were written while the caller was submitting or waiting
C27_Witness ==
    /\ dl_pc = "returned"
    /\ Len(responses) = 2
    /\ \E i, j \in DOMAIN worker :
          /\ worker[i].at = "done" /\ worker[i].written = MaxLines
          /\ worker[j].at = "failed"
    /\ Len(output) = MaxLines


-----------------------------------------------------------------------------
(* Properties of the dates a SearchQuery holds (Spec) *)

\* params holds a parameter of one non-empty string under the slug
HoldsDate(p, slug) == slug \in DOMAIN p /\ Len(p[slug]) = 1 /\ p[slug][1] # <<>>

\* C28: once a SearchQuery has been constructed, and after any later call
\* of update_years, params holds a non-empty start date and end date, with
\* start <= end.
C28_DatesHeld ==
    pc \in {"built", "requested"} =>
        /\ HoldsDate(params, "game_date_gt")
        /\ HoldsDate(params, "game_date_lt")
        /\ QueryStart # NoDate
        /\ QueryStart <= QueryEnd

\* a query built from seasons alone, after update_years: both dates are
\* held, taken from the season table
C28_Witness ==
    /\ pc = "built"
    /\ updated = 1
    /\ KwArg(kwargs, "start_date") = PyNone
    /\ KwArg(kwargs, "end_date") = PyNone
    /\ HoldsDate(params, "game_date_gt")
    /\ HoldsDate(params, "game_date_lt")
    /\ QueryStart < QueryEnd


-----------------------------------------------------------------------------
(* Properties of _add_param on an empty value (SpecAddParam) *)

\* the field of the call, and what its get_params gives for the value
AddedField == SearchFields[ap_field]
Encoding == get_params(AddedField, ap_values)
\* a call of _add_param with an empty value has been made
EmptyAdded == ap_pc = "added" /\ ~Truthy(ap_values)
\* the parameters the encoding of no value consists of: the slug with an
\* empty string (a multi-select with its trailing delimiter alone, a metric
\* with its slug and two empty bounds)
EmptyEncoding ==
    CASE AddedField.field_type = "metric-range" ->
            ("metric" :> <<AddedField.slug>>) @@ ("metric_gt" :> << <<>> >>)
                @@ ("metric_lt" :> << <<>> >>)
      [] AddedField.field_type = "multi-select" ->
            AddedField.slug :> << <<AddedField.delimiter>> >>
      [] AddedField.field_type = "date-range" -> AddedField.slug :> << <<>> >>
      [] AddedField.field_type = "player-lookup" -> AddedField.slug :> <<>>
      [] OTHER -> AddedField.slug :> <<"">>

\* C29 as the specification states it: SearchQuery._add_param called with an
\* empty value leaves params, the frequency and metric_counter unchanged,
\* and Query._add_param writes the field's empty encoding into params.
C29_EmptyEncodingWritten ==
    EmptyAdded =>
        /\ ap_search = ap_query
        /\ ap_base.error = "none"
        /\ ap_base.params = Merge(ap_query.params, EmptyEncoding)

\* C29: SearchQuery._add_param called with an empty value leaves params,
\* the frequency and metric_counter unchanged; Query._add_param hands the
\* empty value to get_params and raises what it raises, or else writes what
\* it returns into params, which is the field's empty encoding unless the
\* value is the number 0 given to a metric field.
C29_EmptyValueSkipped ==
    EmptyAdded =>
        /\ ap_search = ap_query
        /\ Encoding.err # "none" =>
              ap_base = [ap_query EXCEPT !.error = Encoding.err]
        /\ Encoding.err = "none" =>
              /\ ap_base.error = "none"
              /\ ap_base.params = Merge(ap_query.params, Encoding.val)
              /\ ap_base.params # ap_query.params
              /\ (AddedField.field_type = "metric-range" /\ ap_values.t \in {"int", "float"})
                    \/ Encoding.val = EmptyEncoding
        /\ ap_base.frequency = ap_query.frequency
        /\ ap_base.metric_counter = ap_query.metric_counter

\* None was given for a field the query holds a value of: SearchQuery keeps
\* the value, Query overwrites it with the empty encoding
C29_Witness ==
    /\ EmptyAdded
    /\ ap_field = "stand"
    /\ ap_values = PyNone
    /\ "batter_stands" \in DOMAIN ap_query.params
    /\ ap_query.params["batter_stands"] = <<"L">>
    /\ ap_search.params["batter_stands"] = <<"L">>
    /\ ap_base.params["batter_stands"] = <<"">>
\* Query._add_param raised on an empty value
C29_WitnessRaised ==
    /\ EmptyAdded
    /\ ap_base.error # "none"


-----------------------------------------------------------------------------
(* Properties of the names a multi-select field resolves (SpecField) *)

\* get_params was called on a multi-select field with one non-empty string
OneStringGiven ==
    /\ f_pc # "idle"
    /\ SearchFields[f_field].field_type = "multi-select"
    /\ f_in.t = "str"
    /\ f_in.v # ""
\* the slugs the string names, its case put aside: those of the choice, else
\* those of the alias, else the slug it is; none when it names nothing
SlugsNamed(field, value) ==
    IF Lower(value) \in DOMAIN field.choices THEN {field.choices[Lower(value)]}
    ELSE IF Lower(value) \in DOMAIN field.aliases THEN Range(field.aliases[Lower(value)])
    ELSE IF value \in Range(field.choices) THEN {value}
    ELSE {}

\* C30: a multi-select field resolves names and aliases whatever their
\* case: for a string whose lower-cased form is a key of choices or of
\* aliases get_params encodes the slugs of that choice or alias, and the
\* only error it raises for a string is FieldValueError, for a string that
\* is neither a name, an alias nor a slug.
C30_CaseInsensitive ==
    OneStringGiven =>
        IF SlugsNamed(SearchFields[f_field], f_in.v) = {}
        THEN f_out.err = "FieldValueError"
        ELSE /\ f_out.err = "none"
             /\ IsSortedJoin(EncodedTokens,
                             SlugsNamed(SearchFields[f_field], f_in.v),
                             Cardinality(SlugsNamed(SearchFields[f_field], f_in.v)),
                             SearchFields[f_field].delimiter,
                             SearchFields[f_field].add_trailing_delimiter)

\* the name "Sinker", whose lower-cased form is a key of choices: get_params
\* raised KeyError
C30_Witness ==
    /\ OneStringGiven
    /\ f_field = "pitch_type"
    /\ f_in = PyStr("Sinker")
    /\ Lower(f_in.v) \in DOMAIN SearchFields[f_field].choices
    /\ f_out.err = "KeyError"
\* what the code does: a name or an alias is resolved when it is given in
\* lower case, and KeyError is raised when only its lower-cased form is a key
C30_LowerCaseOnly ==
    OneStringGiven =>
        IF /\ f_in.v # Lower(f_in.v)
           /\ Lower(f_in.v) \in DOMAIN SearchFields[f_field].choices
                                   \cup DOMAIN SearchFields[f_field].aliases
        THEN f_out.err = "KeyError"
        ELSE C30_CaseInsensitive

====
